---- MODULE Spec2Model ----
(***************************************************************************)
(* State-machine model of the multi-pair DEX contract                      *)
(* (src/contract/src/lib_v5.rs): pair ledger, LP share accounting, the     *)
(* fee-per-share index, atomic mint, pending deposits and swaps.           *)
(*                                                                         *)
(* Amounts, reserves and shares are BigUint in the contract.  They stay    *)
(* far below 2^31 in this model and are native naturals.  The fee index    *)
(* is scaled by PRECISION = 10^12 and does not fit a native integer, so    *)
(* the index arithmetic is carried out on limb sequences (Big* below),     *)
(* which implement BigUint's exact mul / floor-div / add / sub / compare.  *)
(***************************************************************************)
EXTENDS Integers, Sequences, FiniteSets, TLC

(***************************************************************************)
(* BigUint: little-endian sequence of limbs in base Base, no high zero     *)
(* limb, zero is the empty sequence.                                       *)
(***************************************************************************)
Base == 10000

RECURSIVE Norm(_)
Norm(a) ==
  IF a = <<>> THEN <<>>
  ELSE IF a[Len(a)] = 0 THEN Norm(SubSeq(a, 1, Len(a) - 1)) ELSE a

RECURSIVE ToBig(_)
ToBig(n) == IF n = 0 THEN <<>> ELSE <<n % Base>> \o ToBig(n \div Base)

RECURSIVE ToNat(_)
ToNat(a) == IF a = <<>> THEN 0 ELSE a[1] + Base * ToNat(Tail(a))

Limb(a, i) == IF i <= Len(a) THEN a[i] ELSE 0

RECURSIVE AddFrom(_, _, _, _)
AddFrom(a, b, i, carry) ==
  IF i > Len(a) /\ i > Len(b)
  THEN (IF carry = 0 THEN <<>> ELSE <<carry>>)
  ELSE LET t == Limb(a, i) + Limb(b, i) + carry
       IN  <<t % Base>> \o AddFrom(a, b, i + 1, t \div Base)

BigAdd(a, b) == AddFrom(a, b, 1, 0)

RECURSIVE SubFrom(_, _, _, _)
SubFrom(a, b, i, borrow) ==
  IF i > Len(a) THEN <<>>
  ELSE LET t == Limb(a, i) - Limb(b, i) - borrow
       IN  IF t < 0 THEN <<t + Base>> \o SubFrom(a, b, i + 1, 1)
           ELSE <<t>> \o SubFrom(a, b, i + 1, 0)

\* a - b for a >= b
BigSub(a, b) == Norm(SubFrom(a, b, 1, 0))

RECURSIVE LessFrom(_, _, _)
LessFrom(a, b, i) ==
  IF i = 0 THEN FALSE
  ELSE IF a[i] # b[i] THEN a[i] < b[i] ELSE LessFrom(a, b, i - 1)

BigLt(a, b) ==
  IF Len(a) # Len(b) THEN Len(a) < Len(b) ELSE LessFrom(a, b, Len(a))

BigLe(a, b) == ~BigLt(b, a)

RECURSIVE MulNatFrom(_, _, _, _)
MulNatFrom(a, n, i, carry) ==
  IF i > Len(a) THEN ToBig(carry)
  ELSE LET t == a[i] * n + carry
       IN  <<t % Base>> \o MulNatFrom(a, n, i + 1, t \div Base)

\* a * n for a native n < 2^31 / Base
BigMulNat(a, n) == IF n = 0 THEN <<>> ELSE MulNatFrom(a, n, 1, 0)

Shift(a, k) == IF a = <<>> THEN <<>> ELSE [i \in 1..k |-> 0] \o a

RECURSIVE MulFrom(_, _, _)
MulFrom(a, b, i) ==
  IF i > Len(b) THEN <<>>
  ELSE BigAdd(Shift(BigMulNat(a, b[i]), i - 1), MulFrom(a, b, i + 1))

\* a * b.  A zero low limb of b is a shift of the product by one limb, and a
\* one-limb b is a multiplication by a native number.
RECURSIVE BigMul(_, _)
BigMul(a, b) ==
  IF a = <<>> \/ b = <<>> THEN <<>>
  ELSE IF b[1] = 0 THEN <<0>> \o BigMul(a, Tail(b))
  ELSE IF Len(b) = 1 THEN BigMulNat(a, b[1])
  ELSE MulFrom(a, b, 1)

\* the largest digit d in lo..hi with b * d <= r  (b * lo <= r is given)
RECURSIVE QuotDigit(_, _, _, _)
QuotDigit(r, b, lo, hi) ==
  IF lo = hi THEN lo
  ELSE LET mid == (lo + hi + 1) \div 2
       IN  IF BigLe(BigMulNat(b, mid), r)
           THEN QuotDigit(r, b, mid, hi)
           ELSE QuotDigit(r, b, lo, mid - 1)

\* long division, from the highest limb of a down: <<quotient, remainder>>
RECURSIVE DivModFrom(_, _, _)
DivModFrom(a, b, i) ==
  IF i > Len(a) THEN << <<>>, <<>> >>
  ELSE LET up == DivModFrom(a, b, i + 1)
           r  == Norm(<<a[i]>> \o up[2])
           d  == QuotDigit(r, b, 0, Base - 1)
       IN  << <<d>> \o up[1], BigSub(r, BigMulNat(b, d)) >>

\* short division by a native n with n * Base < 2^31, from the highest limb down
RECURSIVE ShortDivFrom(_, _, _)
ShortDivFrom(a, n, i) ==
  IF i > Len(a) THEN << <<>>, 0 >>
  ELSE LET up == ShortDivFrom(a, n, i + 1)
           cur == up[2] * Base + a[i]
       IN  << <<cur \div n>> \o up[1], cur % n >>

\* a divisor small enough for short division
IsShort(b) == Len(b) = 1 \/ (Len(b) = 2 /\ b[2] < 21)

\* floor(a / b) for b # 0.  A zero low limb of b is cancelled against the low
\* limb of a: floor(a / (Base * b1)) = floor(floor(a / Base) / b1).
RECURSIVE BigDiv(_, _)
BigDiv(a, b) ==
  IF a = <<>> THEN <<>>
  ELSE IF b[1] = 0 THEN BigDiv(Tail(a), Tail(b))
  ELSE IF IsShort(b) THEN Norm(ShortDivFrom(a, ToNat(b), 1)[1])
  ELSE Norm(DivModFrom(a, b, 1)[1])

\* floor(sqrt(a)) as a native natural: the largest s in lo..hi with s * s <= a
RECURSIVE SqrtSearch(_, _, _)
SqrtSearch(a, lo, hi) ==
  IF lo = hi THEN lo
  ELSE LET mid == (lo + hi + 1) \div 2
       IN  IF BigLe(BigMul(ToBig(mid), ToBig(mid)), a)
           THEN SqrtSearch(a, mid, hi)
           ELSE SqrtSearch(a, lo, mid - 1)

\* the same search on a native natural n < Base * Base
RECURSIVE SqrtSearchNat(_, _, _)
SqrtSearchNat(n, lo, hi) ==
  IF lo = hi THEN lo
  ELSE LET mid == (lo + hi + 1) \div 2
       IN  IF mid * mid <= n THEN SqrtSearchNat(n, mid, hi) ELSE SqrtSearchNat(n, lo, mid - 1)

BigSqrt(a) ==
  IF Len(a) <= 2 THEN SqrtSearchNat(ToNat(a), 0, Base - 1) ELSE SqrtSearch(a, 0, Base * Base)

(***************************************************************************)
(* Program constants                                                       *)
(***************************************************************************)
\* const PRECISION: u64 = 1_000_000_000_000, as a BigUint (Base^3)
PRECISION == <<0, 0, 0, 1>>

\* the constant one too low
MINIMUM_LIQUIDITY_one_less == 1000 - 1

MINIMUM_LIQUIDITY == 1000

(***************************************************************************)
(* Bounds of the model and the inputs the calls are drawn from             *)
(***************************************************************************)
\* calls followed in one run
MaxOps == 5
\* the pair ids a run can give out
PairIds == {1}
Accounts == {"u1", "u2"}
\* the accounts that swap
Traders == {"u2"}
Owner == "owner"
Callers == Accounts \cup {Owner}
NoAddr == "none"

\* inputs of the calls
FeePercents == {1, 10}
MintOffers == { <<2000, 4000>>, <<3000, 1500>> }
DepositsA == {2000}
DepositsB == {1500}
SwapAmounts == {500}
MinBounds == {0}

(***************************************************************************)
(* Contract storage: one variable per storage mapper (lib_v5.rs 1480-1584) *)
(***************************************************************************)
VARIABLES
  next_pair_id, registered_pair_ids, pair_creator,
  pair_token_a, pair_token_b, pair_token_a_is_klv, pair_token_b_is_klv,
  pair_reserve_a, pair_reserve_b, pair_fee_percent, pair_is_active,
  owner_shares, total_lp_shares, lp_list, lp_shares,
  owner_unclaimed_fees_a, owner_unclaimed_fees_b,
  fee_per_share_a, fee_per_share_b, lp_entry_index_a, lp_entry_index_b,
  pending_a, pending_b, pair_pending_user_count,
  \* observation of the run: the last call with its outcome, the storage
  \* before it, and the number of calls so far
  last, prev, ops,
  \* the contract's holdings, by pair and side: the amounts the accepted calls
  \* on the pair brought in of that side's asset, less the amounts they sent out
  held_a, held_b

storage == <<next_pair_id, registered_pair_ids, pair_creator,
  pair_token_a, pair_token_b, pair_token_a_is_klv, pair_token_b_is_klv,
  pair_reserve_a, pair_reserve_b, pair_fee_percent, pair_is_active,
  owner_shares, total_lp_shares, lp_list, lp_shares,
  owner_unclaimed_fees_a, owner_unclaimed_fees_b,
  fee_per_share_a, fee_per_share_b, lp_entry_index_a, lp_entry_index_b,
  pending_a, pending_b, pair_pending_user_count>>

vars == <<storage, last, prev, ops, held_a, held_b>>

\* the storage as one record, the value the handlers below transform
St == [
  next_pair_id |-> next_pair_id, registered_pair_ids |-> registered_pair_ids,
  pair_creator |-> pair_creator,
  pair_token_a |-> pair_token_a, pair_token_b |-> pair_token_b,
  pair_token_a_is_klv |-> pair_token_a_is_klv, pair_token_b_is_klv |-> pair_token_b_is_klv,
  pair_reserve_a |-> pair_reserve_a, pair_reserve_b |-> pair_reserve_b,
  pair_fee_percent |-> pair_fee_percent, pair_is_active |-> pair_is_active,
  owner_shares |-> owner_shares, total_lp_shares |-> total_lp_shares,
  lp_list |-> lp_list, lp_shares |-> lp_shares,
  owner_unclaimed_fees_a |-> owner_unclaimed_fees_a,
  owner_unclaimed_fees_b |-> owner_unclaimed_fees_b,
  fee_per_share_a |-> fee_per_share_a, fee_per_share_b |-> fee_per_share_b,
  lp_entry_index_a |-> lp_entry_index_a, lp_entry_index_b |-> lp_entry_index_b,
  pending_a |-> pending_a, pending_b |-> pending_b,
  pair_pending_user_count |-> pair_pending_user_count ]

\* fn init: every mapper empty (reads as zero / false / empty), next_pair_id = 1
InitStorage == [
  next_pair_id |-> 1, registered_pair_ids |-> {},
  pair_creator |-> [p \in PairIds |-> NoAddr],
  pair_token_a |-> [p \in PairIds |-> ""], pair_token_b |-> [p \in PairIds |-> ""],
  pair_token_a_is_klv |-> [p \in PairIds |-> FALSE],
  pair_token_b_is_klv |-> [p \in PairIds |-> FALSE],
  pair_reserve_a |-> [p \in PairIds |-> 0], pair_reserve_b |-> [p \in PairIds |-> 0],
  pair_fee_percent |-> [p \in PairIds |-> 0], pair_is_active |-> [p \in PairIds |-> FALSE],
  owner_shares |-> [p \in PairIds |-> 0], total_lp_shares |-> [p \in PairIds |-> 0],
  lp_list |-> [p \in PairIds |-> {}],
  lp_shares |-> [p \in PairIds |-> [a \in Callers |-> 0]],
  owner_unclaimed_fees_a |-> [p \in PairIds |-> 0],
  owner_unclaimed_fees_b |-> [p \in PairIds |-> 0],
  fee_per_share_a |-> [p \in PairIds |-> <<>>],
  fee_per_share_b |-> [p \in PairIds |-> <<>>],
  lp_entry_index_a |-> [p \in PairIds |-> [a \in Callers |-> <<>>]],
  lp_entry_index_b |-> [p \in PairIds |-> [a \in Callers |-> <<>>]],
  pending_a |-> [p \in PairIds |-> [a \in Callers |-> 0]],
  pending_b |-> [p \in PairIds |-> [a \in Callers |-> 0]],
  pair_pending_user_count |-> [p \in PairIds |-> 0] ]

(***************************************************************************)
(* A call in progress: the storage when the call began (st0) and as        *)
(* written so far (st), the transfers dispatched so far (out), and the     *)
(* message of the require! that failed ("" if none).  ret, raw and fee      *)
(* observe the call: the value returned (mint), the swap's raw output and  *)
(* the fee it hands to distribute_fee.                                     *)
(***************************************************************************)
Ctx(s) ==
  [st0 |-> s, st |-> s, out |-> <<>>, err |-> "", ret |-> 0, raw |-> 0, fee |-> 0,
   late |-> FALSE]

\* position of a require! in its call: the call has already written storage
\* or dispatched a transfer when the check is evaluated on context c
AfterWrite(c) == c.out # <<>> \/ c.st # c.st0

\* require!(cond, msg) with cond false: the call stops with msg and the VM
\* reverts it: the storage is the storage the call began with and no transfer
\* it dispatched takes place
Fail(c, msg) ==
  [st0 |-> c.st0, st |-> c.st0, out |-> <<>>, err |-> msg, ret |-> 0, raw |-> 0, fee |-> 0,
   late |-> c.late \/ AfterWrite(c)]

\* require!(cond, msg) with cond true, evaluated on context c: the call goes
\* on; late records that a check was evaluated after a write or transfer.
\* Checks on the entry context Ctx(s) need no mark: nothing was written yet.
Pass(c) == [c EXCEPT !.late = @ \/ AfterWrite(c)]

\* fn send_token_internal: direct_klv for KLV, direct_kda otherwise
send_token_internal(c, to, token, is_klv, amount) ==
  [c EXCEPT !.out = Append(@, [to |-> to, token |-> IF is_klv THEN "KLV" ELSE token,
                               amount |-> amount])]

pair_exists(s, pair_id) == pair_id \in s.registered_pair_ids

\* the total that counts the platform's shares only
get_total_shares_internal_owner_only(s, pair_id) == s.owner_shares[pair_id]

\* the total that also counts the minimum withheld from the first deposit
get_total_shares_internal_with_minimum(s, pair_id) ==
  s.owner_shares[pair_id] + s.total_lp_shares[pair_id] + MINIMUM_LIQUIDITY

get_total_shares_internal(s, pair_id) == s.owner_shares[pair_id] + s.total_lp_shares[pair_id]

user_has_pending(s, pair_id, user) ==
  s.pending_a[pair_id][user] > 0 \/ s.pending_b[pair_id][user] > 0

\* track_pending_user_add that counts every deposit
track_pending_user_add_every_time(s, pair_id, user, had_pending_before) ==
  IF user_has_pending(s, pair_id, user)
  THEN [s EXCEPT !.pair_pending_user_count[pair_id] = @ + 1]
  ELSE s

\* fn track_pending_user_add
track_pending_user_add(s, pair_id, user, had_pending_before) ==
  IF ~had_pending_before /\ user_has_pending(s, pair_id, user)
  THEN [s EXCEPT !.pair_pending_user_count[pair_id] = @ + 1]
  ELSE s

\* track_pending_user_remove that also counts down while a balance is left
track_pending_user_remove_eager(s, pair_id, user, had_pending_before) ==
  IF had_pending_before
  THEN [s EXCEPT !.pair_pending_user_count[pair_id] = IF @ > 0 THEN @ - 1 ELSE @]
  ELSE s

\* fn track_pending_user_remove
track_pending_user_remove(s, pair_id, user, had_pending_before) ==
  IF had_pending_before /\ ~user_has_pending(s, pair_id, user)
  THEN [s EXCEPT !.pair_pending_user_count[pair_id] = IF @ > 0 THEN @ - 1 ELSE @]
  ELSE s

\* add_lp_shares that leaves the pair's total untouched when the LP already exists
add_lp_shares_stale_total(s, pair_id, addr, shares) ==
  IF addr \notin s.lp_list[pair_id]
  THEN [s EXCEPT !.lp_list[pair_id] = @ \cup {addr},
                 !.lp_entry_index_a[pair_id][addr] = s.fee_per_share_a[pair_id],
                 !.lp_entry_index_b[pair_id][addr] = s.fee_per_share_b[pair_id],
                 !.lp_shares[pair_id][addr] = shares,
                 !.total_lp_shares[pair_id] = @ + shares]
  ELSE [s EXCEPT !.lp_shares[pair_id][addr] = @ + shares]

\* add_lp_shares that takes a new LP's entry indices from the opposite sides
add_lp_shares_crossed_entry(s, pair_id, addr, shares) ==
  LET s1 == IF addr \notin s.lp_list[pair_id]
            THEN [s EXCEPT !.lp_list[pair_id] = @ \cup {addr},
                           !.lp_entry_index_a[pair_id][addr] = s.fee_per_share_b[pair_id],
                           !.lp_entry_index_b[pair_id][addr] = s.fee_per_share_a[pair_id],
                           !.lp_shares[pair_id][addr] = shares]
            ELSE [s EXCEPT !.lp_shares[pair_id][addr] = @ + shares]
  IN  [s1 EXCEPT !.total_lp_shares[pair_id] = @ + shares]

\* fn add_lp_shares
add_lp_shares(s, pair_id, addr, shares) ==
  LET is_new_lp == addr \notin s.lp_list[pair_id]
      s1 == IF is_new_lp
            THEN [s EXCEPT !.lp_list[pair_id] = @ \cup {addr},
                           !.lp_entry_index_a[pair_id][addr] = s.fee_per_share_a[pair_id],
                           !.lp_entry_index_b[pair_id][addr] = s.fee_per_share_b[pair_id],
                           !.lp_shares[pair_id][addr] = shares]
            ELSE [s EXCEPT !.lp_shares[pair_id][addr] = @ + shares]
  IN  [s1 EXCEPT !.total_lp_shares[pair_id] = @ + shares]

\* the whole fee goes to the providers' index, no platform portion
distribute_fee_no_platform_cut(s, pair_id, fee, is_token_a) ==
  LET total_lp == s.total_lp_shares[pair_id]
      increase == BigDiv(BigMul(ToBig(fee), PRECISION), ToBig(total_lp))
  IN
  IF fee = 0 \/ total_lp = 0 THEN s
  ELSE IF is_token_a
       THEN [s EXCEPT !.fee_per_share_a[pair_id] = BigAdd(@, increase)]
       ELSE [s EXCEPT !.fee_per_share_b[pair_id] = BigAdd(@, increase)]

\* distribute_fee with the flat tenth counted twice in the owner's factor
distribute_fee_double_flat_cut(s, pair_id, fee, is_token_a) ==
  IF fee = 0 THEN s
  ELSE
    LET owner_sh == s.owner_shares[pair_id]
        total_lp == s.total_lp_shares[pair_id]
        total_shares == owner_sh + total_lp
    IN
    IF total_shares = 0 THEN s
    ELSE
      LET owner_pct == IF total_shares > 0
                       THEN BigDiv(BigMul(ToBig(owner_sh), PRECISION), ToBig(total_shares))
                       ELSE <<>>
          numerator == BigAdd(BigMul(ToBig(9), owner_pct), BigMulNat(PRECISION, 2))
          denominator == BigMul(ToBig(10), PRECISION)
          owner_portion == ToNat(BigDiv(BigMul(ToBig(fee), numerator), denominator))
          lp_portion == IF fee > owner_portion THEN fee - owner_portion ELSE 0
          fee_per_share_increase ==
            BigDiv(BigMul(ToBig(lp_portion), PRECISION), ToBig(total_lp))
      IN
      IF is_token_a
      THEN LET s1 == [s EXCEPT !.owner_unclaimed_fees_a[pair_id] = @ + owner_portion]
           IN  IF total_lp > 0 /\ lp_portion > 0
               THEN [s1 EXCEPT !.fee_per_share_a[pair_id] = BigAdd(@, fee_per_share_increase)]
               ELSE s1
      ELSE LET s1 == [s EXCEPT !.owner_unclaimed_fees_b[pair_id] = @ + owner_portion]
           IN  IF total_lp > 0 /\ lp_portion > 0
               THEN [s1 EXCEPT !.fee_per_share_b[pair_id] = BigAdd(@, fee_per_share_increase)]
               ELSE s1

\* distribute_fee that stores the increase as the index instead of adding it
distribute_fee_index_overwritten(s, pair_id, fee, is_token_a) ==
  IF fee = 0 THEN s
  ELSE
    LET owner_sh == s.owner_shares[pair_id]
        total_lp == s.total_lp_shares[pair_id]
        total_shares == owner_sh + total_lp
    IN
    IF total_shares = 0 THEN s
    ELSE
      LET owner_pct == IF total_shares > 0
                       THEN BigDiv(BigMul(ToBig(owner_sh), PRECISION), ToBig(total_shares))
                       ELSE <<>>
          numerator == BigAdd(BigMul(ToBig(9), owner_pct), PRECISION)
          denominator == BigMul(ToBig(10), PRECISION)
          owner_portion == ToNat(BigDiv(BigMul(ToBig(fee), numerator), denominator))
          lp_portion == IF fee > owner_portion THEN fee - owner_portion ELSE 0
          fee_per_share_increase ==
            BigDiv(BigMul(ToBig(lp_portion), PRECISION), ToBig(total_lp))
      IN
      IF is_token_a
      THEN LET s1 == [s EXCEPT !.owner_unclaimed_fees_a[pair_id] = @ + owner_portion]
           IN  IF total_lp > 0 /\ lp_portion > 0
               THEN [s1 EXCEPT !.fee_per_share_a[pair_id] = fee_per_share_increase]
               ELSE s1
      ELSE LET s1 == [s EXCEPT !.owner_unclaimed_fees_b[pair_id] = @ + owner_portion]
           IN  IF total_lp > 0 /\ lp_portion > 0
               THEN [s1 EXCEPT !.fee_per_share_b[pair_id] = fee_per_share_increase]
               ELSE s1

\* fn distribute_fee
distribute_fee(s, pair_id, fee, is_token_a) ==
  IF fee = 0 THEN s
  ELSE
    LET owner_sh == s.owner_shares[pair_id]
        total_lp == s.total_lp_shares[pair_id]
        total_shares == owner_sh + total_lp
    IN
    IF total_shares = 0 THEN s
    ELSE
      LET owner_pct == IF total_shares > 0
                       THEN BigDiv(BigMul(ToBig(owner_sh), PRECISION), ToBig(total_shares))
                       ELSE <<>>
          numerator == BigAdd(BigMul(ToBig(9), owner_pct), PRECISION)
          denominator == BigMul(ToBig(10), PRECISION)
          owner_portion == ToNat(BigDiv(BigMul(ToBig(fee), numerator), denominator))
          lp_portion == IF fee > owner_portion THEN fee - owner_portion ELSE 0
          fee_per_share_increase ==
            BigDiv(BigMul(ToBig(lp_portion), PRECISION), ToBig(total_lp))
      IN
      IF is_token_a
      THEN LET s1 == [s EXCEPT !.owner_unclaimed_fees_a[pair_id] = @ + owner_portion]
           IN  IF total_lp > 0 /\ lp_portion > 0
               THEN [s1 EXCEPT !.fee_per_share_a[pair_id] = BigAdd(@, fee_per_share_increase)]
               ELSE s1
      ELSE LET s1 == [s EXCEPT !.owner_unclaimed_fees_b[pair_id] = @ + owner_portion]
           IN  IF total_lp > 0 /\ lp_portion > 0
               THEN [s1 EXCEPT !.fee_per_share_b[pair_id] = BigAdd(@, fee_per_share_increase)]
               ELSE s1

\* the fee owed on one side: (current - entry) * shares / PRECISION if the index advanced
owed_fee(current_index, entry_index, shares) ==
  IF BigLt(entry_index, current_index)
  THEN ToNat(BigDiv(BigMul(BigSub(current_index, entry_index), ToBig(shares)), PRECISION))
  ELSE 0

\* fn calculate_lp_pending_fees (view): <<pending_a, pending_b>>
calculate_lp_pending_fees(s, pair_id, addr) ==
  IF addr \notin s.lp_list[pair_id] THEN <<0, 0>>
  ELSE LET shares == s.lp_shares[pair_id][addr] IN
    IF shares = 0 THEN <<0, 0>>
    ELSE << owed_fee(s.fee_per_share_a[pair_id], s.lp_entry_index_a[pair_id][addr], shares),
            owed_fee(s.fee_per_share_b[pair_id], s.lp_entry_index_b[pair_id][addr], shares) >>

\* settlement that pays the fees owed and leaves the entry indices where they were
claim_pending_fees_internal_keeps_entry(c, pair_id, addr) ==
  LET s == c.st IN
  IF addr \notin s.lp_list[pair_id] THEN c
  ELSE LET shares == s.lp_shares[pair_id][addr] IN
    IF shares = 0 THEN c
    ELSE
      LET current_index_a == s.fee_per_share_a[pair_id]
          entry_index_a == s.lp_entry_index_a[pair_id][addr]
          fees_a == owed_fee(current_index_a, entry_index_a, shares)
          current_index_b == s.fee_per_share_b[pair_id]
          entry_index_b == s.lp_entry_index_b[pair_id][addr]
          fees_b == owed_fee(current_index_b, entry_index_b, shares)
          s1 == s
          c1 == [c EXCEPT !.st = s1]
          c2 == IF fees_a > 0
                THEN send_token_internal(c1, addr, s.pair_token_a[pair_id],
                                         s.pair_token_a_is_klv[pair_id], fees_a)
                ELSE c1
      IN  IF fees_b > 0
          THEN send_token_internal(c2, addr, s.pair_token_b[pair_id],
                                   s.pair_token_b_is_klv[pair_id], fees_b)
          ELSE c2

\* fn claim_pending_fees_internal
claim_pending_fees_internal(c, pair_id, addr) ==
  LET s == c.st IN
  IF addr \notin s.lp_list[pair_id] THEN c
  ELSE LET shares == s.lp_shares[pair_id][addr] IN
    IF shares = 0 THEN c
    ELSE
      LET current_index_a == s.fee_per_share_a[pair_id]
          entry_index_a == s.lp_entry_index_a[pair_id][addr]
          fees_a == owed_fee(current_index_a, entry_index_a, shares)
          current_index_b == s.fee_per_share_b[pair_id]
          entry_index_b == s.lp_entry_index_b[pair_id][addr]
          fees_b == owed_fee(current_index_b, entry_index_b, shares)
          s1 == [s EXCEPT !.lp_entry_index_a[pair_id][addr] = current_index_a,
                          !.lp_entry_index_b[pair_id][addr] = current_index_b]
          c1 == [c EXCEPT !.st = s1]
          c2 == IF fees_a > 0
                THEN send_token_internal(c1, addr, s.pair_token_a[pair_id],
                                         s.pair_token_a_is_klv[pair_id], fees_a)
                ELSE c1
      IN  IF fees_b > 0
          THEN send_token_internal(c2, addr, s.pair_token_b[pair_id],
                                   s.pair_token_b_is_klv[pair_id], fees_b)
          ELSE c2

(***************************************************************************)
(* Endpoints.  Each takes the storage before the call and the call's       *)
(* inputs and yields the call in progress at the point where it returned   *)
(* or failed a require!.                                                   *)
(***************************************************************************)

\* fn create_pair
create_pair(s, caller, token_a, token_b, token_a_is_klv, token_b_is_klv, fee_percent) ==
  LET c == Ctx(s) IN
  IF ~(token_a # token_b) THEN Fail(c, "Tokens must be different")
  ELSE IF ~(fee_percent >= 1 /\ fee_percent <= 10) THEN Fail(c, "Fee must be 1-10%")
  ELSE IF token_a_is_klv /\ token_b_is_klv THEN Fail(c, "Both tokens cannot be KLV")
  ELSE IF ~token_a_is_klv /\ token_a = "KLV" THEN Fail(c, "token_a is KLV but token_a_is_klv is false - pair would be broken")
  ELSE IF ~token_b_is_klv /\ token_b = "KLV" THEN Fail(c, "token_b is KLV but token_b_is_klv is false - pair would be broken")
  ELSE
    LET pair_id == s.next_pair_id IN
    [c EXCEPT !.ret = pair_id, !.st = [s EXCEPT
       !.next_pair_id = pair_id + 1,
       !.pair_creator[pair_id] = caller,
       !.pair_token_a[pair_id] = token_a,
       !.pair_token_b[pair_id] = token_b,
       !.pair_token_a_is_klv[pair_id] = token_a_is_klv,
       !.pair_token_b_is_klv[pair_id] = token_b_is_klv,
       !.pair_reserve_a[pair_id] = 0,
       !.pair_reserve_b[pair_id] = 0,
       !.pair_fee_percent[pair_id] = fee_percent,
       !.pair_is_active[pair_id] = TRUE,
       !.owner_shares[pair_id] = 0,
       !.total_lp_shares[pair_id] = 0,
       !.owner_unclaimed_fees_a[pair_id] = 0,
       !.owner_unclaimed_fees_b[pair_id] = 0,
       !.fee_per_share_a[pair_id] = <<>>,
       !.fee_per_share_b[pair_id] = <<>>,
       !.pair_pending_user_count[pair_id] = 0,
       !.registered_pair_ids = @ \cup {pair_id}]]

\* fn get_pair_creator_or_owner
get_pair_creator_or_owner(s, pair_id) ==
  IF s.pair_creator[pair_id] = NoAddr THEN Owner ELSE s.pair_creator[pair_id]

\* delete_pair without the V5 check of the pending-user counter
delete_pair_ignoring_pending(s, caller, pair_id) ==
  LET c == Ctx(s) IN
  IF ~pair_exists(s, pair_id) THEN Fail(c, "Pair does not exist")
  ELSE IF ~(caller = get_pair_creator_or_owner(s, pair_id) \/ caller = Owner)
       THEN Fail(c, "Only pair creator or contract owner can delete")
  ELSE IF ~(s.pair_reserve_a[pair_id] = 0 /\ s.pair_reserve_b[pair_id] = 0)
       THEN Fail(c, "Cannot delete pair with liquidity")
  ELSE IF ~(s.lp_list[pair_id] = {}) THEN Fail(c, "Cannot delete pair with active LPs")
  ELSE IF ~(s.owner_shares[pair_id] = 0) THEN Fail(c, "Cannot delete pair with owner shares")
  ELSE IF ~(s.owner_unclaimed_fees_a[pair_id] = 0 /\ s.owner_unclaimed_fees_b[pair_id] = 0)
       THEN Fail(c, "Claim owner fees before deleting")
  ELSE
    [c EXCEPT !.st = [s EXCEPT
       !.pair_creator[pair_id] = NoAddr,
       !.pair_token_a[pair_id] = "",
       !.pair_token_b[pair_id] = "",
       !.pair_token_a_is_klv[pair_id] = FALSE,
       !.pair_token_b_is_klv[pair_id] = FALSE,
       !.pair_reserve_a[pair_id] = 0,
       !.pair_reserve_b[pair_id] = 0,
       !.pair_fee_percent[pair_id] = 0,
       !.pair_is_active[pair_id] = FALSE,
       !.owner_shares[pair_id] = 0,
       !.total_lp_shares[pair_id] = 0,
       !.owner_unclaimed_fees_a[pair_id] = 0,
       !.owner_unclaimed_fees_b[pair_id] = 0,
       !.fee_per_share_a[pair_id] = <<>>,
       !.fee_per_share_b[pair_id] = <<>>,
       !.pair_pending_user_count[pair_id] = 0,
       !.registered_pair_ids = @ \ {pair_id}]]

\* fn delete_pair
delete_pair(s, caller, pair_id) ==
  LET c == Ctx(s) IN
  IF ~pair_exists(s, pair_id) THEN Fail(c, "Pair does not exist")
  ELSE IF ~(caller = get_pair_creator_or_owner(s, pair_id) \/ caller = Owner)
       THEN Fail(c, "Only pair creator or contract owner can delete")
  ELSE IF ~(s.pair_reserve_a[pair_id] = 0 /\ s.pair_reserve_b[pair_id] = 0)
       THEN Fail(c, "Cannot delete pair with liquidity")
  ELSE IF ~(s.lp_list[pair_id] = {}) THEN Fail(c, "Cannot delete pair with active LPs")
  ELSE IF ~(s.owner_shares[pair_id] = 0) THEN Fail(c, "Cannot delete pair with owner shares")
  ELSE IF ~(s.pair_pending_user_count[pair_id] = 0)
       THEN Fail(c, "Cannot delete pair with pending user deposits")
  ELSE IF ~(s.owner_unclaimed_fees_a[pair_id] = 0 /\ s.owner_unclaimed_fees_b[pair_id] = 0)
       THEN Fail(c, "Claim owner fees before deleting")
  ELSE
    [c EXCEPT !.st = [s EXCEPT
       !.pair_creator[pair_id] = NoAddr,
       !.pair_token_a[pair_id] = "",
       !.pair_token_b[pair_id] = "",
       !.pair_token_a_is_klv[pair_id] = FALSE,
       !.pair_token_b_is_klv[pair_id] = FALSE,
       !.pair_reserve_a[pair_id] = 0,
       !.pair_reserve_b[pair_id] = 0,
       !.pair_fee_percent[pair_id] = 0,
       !.pair_is_active[pair_id] = FALSE,
       !.owner_shares[pair_id] = 0,
       !.total_lp_shares[pair_id] = 0,
       !.owner_unclaimed_fees_a[pair_id] = 0,
       !.owner_unclaimed_fees_b[pair_id] = 0,
       !.fee_per_share_a[pair_id] = <<>>,
       !.fee_per_share_b[pair_id] = <<>>,
       !.pair_pending_user_count[pair_id] = 0,
       !.registered_pair_ids = @ \ {pair_id}]]

\* fn can_delete_pair (view)
can_delete_pair(s, pair_id) ==
  IF ~pair_exists(s, pair_id) THEN FALSE
  ELSE
    /\ s.pair_reserve_a[pair_id] = 0
    /\ s.pair_reserve_b[pair_id] = 0
    /\ s.lp_list[pair_id] = {}
    /\ s.owner_shares[pair_id] = 0
    /\ s.pair_pending_user_count[pair_id] = 0
    /\ s.owner_unclaimed_fees_a[pair_id] = 0
    /\ s.owner_unclaimed_fees_b[pair_id] = 0

\* set_pair_active that never clears the flag
set_pair_active_never_off(s, caller, pair_id, is_active) ==
  LET c == Ctx(s) IN
  IF caller # Owner THEN Fail(c, "Endpoint can only be called by owner")
  ELSE IF ~pair_exists(s, pair_id) THEN Fail(c, "Pair does not exist")
  ELSE [c EXCEPT !.st = [s EXCEPT !.pair_is_active[pair_id] = TRUE]]

\* set_pair_active that switches every pair of the contract at once
set_pair_active_every_pair(s, caller, pair_id, is_active) ==
  LET c == Ctx(s) IN
  IF caller # Owner THEN Fail(c, "Endpoint can only be called by owner")
  ELSE IF ~pair_exists(s, pair_id) THEN Fail(c, "Pair does not exist")
  ELSE [c EXCEPT !.st = [s EXCEPT !.pair_is_active =
                           [q \in DOMAIN s.pair_is_active |-> is_active]]]

\* fn set_pair_active (#[only_owner])
set_pair_active(s, caller, pair_id, is_active) ==
  LET c == Ctx(s) IN
  IF caller # Owner THEN Fail(c, "Endpoint can only be called by owner")
  ELSE IF ~pair_exists(s, pair_id) THEN Fail(c, "Pair does not exist")
  ELSE [c EXCEPT !.st = [s EXCEPT !.pair_is_active[pair_id] = is_active]]

\* fn set_pair_fee (#[only_owner])
set_pair_fee(s, caller, pair_id, fee_percent) ==
  LET c == Ctx(s) IN
  IF caller # Owner THEN Fail(c, "Endpoint can only be called by owner")
  ELSE IF ~pair_exists(s, pair_id) THEN Fail(c, "Pair does not exist")
  ELSE IF ~(fee_percent >= 1 /\ fee_percent <= 10) THEN Fail(c, "Fee must be 1-10%")
  ELSE [c EXCEPT !.st = [s EXCEPT !.pair_fee_percent[pair_id] = fee_percent]]

\* fn update_pair_token_a (#[only_owner])
update_pair_token_a(s, caller, pair_id, new_token_a, is_klv) ==
  LET c == Ctx(s) IN
  IF caller # Owner THEN Fail(c, "Endpoint can only be called by owner")
  ELSE IF ~pair_exists(s, pair_id) THEN Fail(c, "Pair does not exist")
  ELSE IF ~(s.pair_reserve_a[pair_id] = 0)
       THEN Fail(c, "Cannot update token with existing liquidity")
  ELSE [c EXCEPT !.st = [s EXCEPT !.pair_token_a[pair_id] = new_token_a,
                                  !.pair_token_a_is_klv[pair_id] = is_klv]]

\* fn update_pair_token_b (#[only_owner])
update_pair_token_b(s, caller, pair_id, new_token_b, is_klv) ==
  LET c == Ctx(s) IN
  IF caller # Owner THEN Fail(c, "Endpoint can only be called by owner")
  ELSE IF ~pair_exists(s, pair_id) THEN Fail(c, "Pair does not exist")
  ELSE IF ~(s.pair_reserve_b[pair_id] = 0)
       THEN Fail(c, "Cannot update token with existing liquidity")
  ELSE [c EXCEPT !.st = [s EXCEPT !.pair_token_b[pair_id] = new_token_b,
                                  !.pair_token_b_is_klv[pair_id] = is_klv]]

\* fn owner_remove_liquidity (#[only_owner])
owner_remove_liquidity(s, caller, pair_id, shares_to_remove) ==
  LET c == Ctx(s) IN
  IF caller # Owner THEN Fail(c, "Endpoint can only be called by owner")
  ELSE IF ~pair_exists(s, pair_id) THEN Fail(c, "Pair does not exist")
  ELSE IF ~(shares_to_remove <= s.owner_shares[pair_id]) THEN Fail(c, "Insufficient owner shares")
  ELSE IF ~(shares_to_remove > 0) THEN Fail(c, "Shares must be > 0")
  ELSE
    LET total_shares == get_total_shares_internal(s, pair_id)
        reserve_a == s.pair_reserve_a[pair_id]
        reserve_b == s.pair_reserve_b[pair_id]
        amount_a == (shares_to_remove * reserve_a) \div total_shares
        amount_b == (shares_to_remove * reserve_b) \div total_shares
        c1 == [c EXCEPT !.st = [s EXCEPT
                 !.owner_shares[pair_id] = @ - shares_to_remove,
                 !.pair_reserve_a[pair_id] = reserve_a - amount_a,
                 !.pair_reserve_b[pair_id] = reserve_b - amount_b]]
        c2 == IF amount_a > 0
              THEN send_token_internal(c1, Owner, s.pair_token_a[pair_id],
                                       s.pair_token_a_is_klv[pair_id], amount_a)
              ELSE c1
    IN  IF amount_b > 0
        THEN send_token_internal(c2, Owner, s.pair_token_b[pair_id],
                                 s.pair_token_b_is_klv[pair_id], amount_b)
        ELSE c2

\* owner_claim_fees that pays out but leaves the accumulators standing
owner_claim_fees_keeps_accumulators(s, caller, pair_id) ==
  LET c == Ctx(s) IN
  IF caller # Owner THEN Fail(c, "Endpoint can only be called by owner")
  ELSE IF ~pair_exists(s, pair_id) THEN Fail(c, "Pair does not exist")
  ELSE
    LET fees_a == s.owner_unclaimed_fees_a[pair_id]
        fees_b == s.owner_unclaimed_fees_b[pair_id]
    IN
    IF ~(fees_a > 0 \/ fees_b > 0) THEN Fail(c, "No fees to claim")
    ELSE
      LET c2 == IF fees_a > 0
                THEN send_token_internal(c, Owner, s.pair_token_a[pair_id],
                                         s.pair_token_a_is_klv[pair_id], fees_a)
                ELSE c
      IN  IF fees_b > 0
          THEN send_token_internal(c2, Owner, s.pair_token_b[pair_id],
                                   s.pair_token_b_is_klv[pair_id], fees_b)
          ELSE c2

\* fn owner_claim_fees (#[only_owner])
owner_claim_fees(s, caller, pair_id) ==
  LET c == Ctx(s) IN
  IF caller # Owner THEN Fail(c, "Endpoint can only be called by owner")
  ELSE IF ~pair_exists(s, pair_id) THEN Fail(c, "Pair does not exist")
  ELSE
    LET fees_a == s.owner_unclaimed_fees_a[pair_id]
        fees_b == s.owner_unclaimed_fees_b[pair_id]
    IN
    IF ~(fees_a > 0 \/ fees_b > 0) THEN Fail(c, "No fees to claim")
    ELSE
      LET c1 == [c EXCEPT !.st = [s EXCEPT !.owner_unclaimed_fees_a[pair_id] = 0,
                                           !.owner_unclaimed_fees_b[pair_id] = 0]]
          c2 == IF fees_a > 0
                THEN send_token_internal(c1, Owner, s.pair_token_a[pair_id],
                                         s.pair_token_a_is_klv[pair_id], fees_a)
                ELSE c1
      IN  IF fees_b > 0
          THEN send_token_internal(c2, Owner, s.pair_token_b[pair_id],
                                   s.pair_token_b_is_klv[pair_id], fees_b)
          ELSE c2

\* fn extract_dual_payment: <<amount_a, amount_b>> of a call value [klv, kda].
\* The loop assigns (does not add) and tests token_a first.
RECURSIVE ExtractLoop(_, _, _, _, _, _)
ExtractLoop(kda, token_a, token_b, i, amount_a, amount_b) ==
  IF i > Len(kda) THEN <<amount_a, amount_b>>
  ELSE IF kda[i].token = token_a
       THEN ExtractLoop(kda, token_a, token_b, i + 1, kda[i].amount, amount_b)
  ELSE IF kda[i].token = token_b
       THEN ExtractLoop(kda, token_a, token_b, i + 1, amount_a, kda[i].amount)
  ELSE ExtractLoop(kda, token_a, token_b, i + 1, amount_a, amount_b)

extract_dual_payment(value, token_a, token_b, token_a_is_klv, token_b_is_klv) ==
  LET amount_a0 == IF token_a_is_klv THEN value.klv ELSE 0
      amount_b0 == IF ~token_a_is_klv /\ token_b_is_klv THEN value.klv ELSE 0
  IN  ExtractLoop(value.kda, token_a, token_b, 1, amount_a0, amount_b0)

\* mint keeps the excess: nothing is sent back
send_refunds_none(c, s, pair_id, caller, refund_a, refund_b) == c

\* refunds of mint: token A first, then token B, each only if non-zero
send_refunds(c, s, pair_id, caller, refund_a, refund_b) ==
  LET c1 == IF refund_a > 0
            THEN send_token_internal(c, caller, s.pair_token_a[pair_id],
                                     s.pair_token_a_is_klv[pair_id], refund_a)
            ELSE c
  IN  IF refund_b > 0
      THEN send_token_internal(c1, caller, s.pair_token_b[pair_id],
                               s.pair_token_b_is_klv[pair_id], refund_b)
      ELSE c1

\* mint_finish that checks the slippage after its effects and reports the
\* failure without aborting the call
mint_finish_late_check(c, s, pair_id, caller, min_lp_shares, new_shares, used_a, used_b, refund_a, refund_b) ==
  LET c1 == claim_pending_fees_internal(c, pair_id, caller)
      s2 == [c1.st EXCEPT !.pair_reserve_a[pair_id] = @ + used_a,
                          !.pair_reserve_b[pair_id] = @ + used_b]
      s3 == add_lp_shares(s2, pair_id, caller, new_shares)
      c3 == [c1 EXCEPT !.st = s3, !.ret = new_shares]
      c4 == send_refunds(c3, s, pair_id, caller, refund_a, refund_b)
  IN  IF ~(new_shares >= min_lp_shares) THEN [c4 EXCEPT !.err = "Slippage: shares below minimum"]
      ELSE IF ~(new_shares > 0) THEN [c4 EXCEPT !.err = "Shares must be > 0"]
      ELSE c4

\* mint_finish that settles the caller's fees before its two checks
mint_finish_settle_first(c, s, pair_id, caller, min_lp_shares, new_shares, used_a, used_b, refund_a, refund_b) ==
  LET c1 == claim_pending_fees_internal(c, pair_id, caller) IN
  IF ~(new_shares >= min_lp_shares) THEN Fail(c1, "Slippage: shares below minimum")
  ELSE IF ~(new_shares > 0) THEN Fail(c1, "Shares must be > 0")
  ELSE
    LET s2 == [c1.st EXCEPT !.pair_reserve_a[pair_id] = @ + used_a,
                            !.pair_reserve_b[pair_id] = @ + used_b]
        s3 == add_lp_shares(s2, pair_id, caller, new_shares)
        c3 == [Pass(c1) EXCEPT !.st = s3, !.ret = new_shares]
    IN  send_refunds(c3, s, pair_id, caller, refund_a, refund_b)

\* mint_finish that settles the caller's fees after the shares were added
mint_finish_settle_after(c, s, pair_id, caller, min_lp_shares, new_shares, used_a, used_b, refund_a, refund_b) ==
  IF ~(new_shares >= min_lp_shares) THEN Fail(c, "Slippage: shares below minimum")
  ELSE IF ~(new_shares > 0) THEN Fail(c, "Shares must be > 0")
  ELSE
    LET s2 == [c.st EXCEPT !.pair_reserve_a[pair_id] = @ + used_a,
                           !.pair_reserve_b[pair_id] = @ + used_b]
        s3 == add_lp_shares(s2, pair_id, caller, new_shares)
        c1 == claim_pending_fees_internal([c EXCEPT !.st = s3], pair_id, caller)
        c3 == [c1 EXCEPT !.ret = new_shares]
    IN  send_refunds(c3, s, pair_id, caller, refund_a, refund_b)

\* mint_finish that credits twice the computed shares
mint_finish_double_shares(c, s, pair_id, caller, min_lp_shares, new_shares, used_a, used_b, refund_a, refund_b) ==
  IF ~(new_shares >= min_lp_shares) THEN Fail(c, "Slippage: shares below minimum")
  ELSE IF ~(new_shares > 0) THEN Fail(c, "Shares must be > 0")
  ELSE
    LET c1 == claim_pending_fees_internal(c, pair_id, caller)
        s2 == [c1.st EXCEPT !.pair_reserve_a[pair_id] = @ + used_a,
                            !.pair_reserve_b[pair_id] = @ + used_b]
        s3 == add_lp_shares(s2, pair_id, caller, 2 * new_shares)
        c3 == [c1 EXCEPT !.st = s3, !.ret = 2 * new_shares]
    IN  send_refunds(c3, s, pair_id, caller, refund_a, refund_b)

\* mint from the slippage check on (lib_v5.rs 425-447)
mint_finish(c, s, pair_id, caller, min_lp_shares, new_shares, used_a, used_b, refund_a, refund_b) ==
  IF ~(new_shares >= min_lp_shares) THEN Fail(c, "Slippage: shares below minimum")
  ELSE IF ~(new_shares > 0) THEN Fail(c, "Shares must be > 0")
  ELSE
    LET c1 == claim_pending_fees_internal(c, pair_id, caller)
        s2 == [c1.st EXCEPT !.pair_reserve_a[pair_id] = @ + used_a,
                            !.pair_reserve_b[pair_id] = @ + used_b]
        s3 == add_lp_shares(s2, pair_id, caller, new_shares)
        c3 == [c1 EXCEPT !.st = s3, !.ret = new_shares]
    IN  send_refunds(c3, s, pair_id, caller, refund_a, refund_b)

\* fn mint; value is the call value [klv |-> amount, kda |-> sequence of transfers]
mint(s, caller, pair_id, min_lp_shares, value) ==
  LET c == Ctx(s) IN
  IF ~pair_exists(s, pair_id) THEN Fail(c, "Pair does not exist")
  ELSE IF ~s.pair_is_active[pair_id] THEN Fail(c, "Pair is not active")
  ELSE
    LET reserve_a == s.pair_reserve_a[pair_id]
        reserve_b == s.pair_reserve_b[pair_id]
        amounts == extract_dual_payment(value, s.pair_token_a[pair_id], s.pair_token_b[pair_id],
                     s.pair_token_a_is_klv[pair_id], s.pair_token_b_is_klv[pair_id])
        amount_a == amounts[1]
        amount_b == amounts[2]
    IN
    IF ~(amount_a > 0) THEN Fail(c, "No token A sent")
    ELSE IF ~(amount_b > 0) THEN Fail(c, "No token B sent")
    ELSE IF reserve_a = 0 /\ reserve_b = 0
    THEN
      LET product == BigMul(ToBig(amount_a), ToBig(amount_b))
          sqrt_shares == BigSqrt(product)
      IN  IF ~(sqrt_shares > MINIMUM_LIQUIDITY) THEN Fail(c, "Initial liquidity too small")
          ELSE mint_finish(c, s, pair_id, caller, min_lp_shares,
                           sqrt_shares - MINIMUM_LIQUIDITY, amount_a, amount_b, 0, 0)
    ELSE
      LET total_shares == s.owner_shares[pair_id] + s.total_lp_shares[pair_id]
          optimal_b == (amount_a * reserve_b) \div reserve_a
          optimal_a == (amount_b * reserve_a) \div reserve_b
          a_limits == optimal_b <= amount_b
          used_a == IF a_limits THEN amount_a ELSE optimal_a
          used_b == IF a_limits THEN optimal_b ELSE amount_b
          refund_a == IF a_limits THEN 0 ELSE amount_a - optimal_a
          refund_b == IF a_limits THEN amount_b - optimal_b ELSE 0
      IN
      IF ~(used_a > 0 /\ used_b > 0) THEN Fail(c, "Amounts too small")
      ELSE
        LET shares_from_a == (used_a * total_shares) \div reserve_a
            shares_from_b == (used_b * total_shares) \div reserve_b
            new_shares == IF shares_from_a < shares_from_b THEN shares_from_a ELSE shares_from_b
        IN  mint_finish(c, s, pair_id, caller, min_lp_shares,
                        new_shares, used_a, used_b, refund_a, refund_b)

\* deposit_pending_* from "Track pending user count" on
deposit_pending(s, pair_id, caller, amount, is_a) ==
  LET had_pending == user_has_pending(s, pair_id, caller)
      s1 == IF is_a THEN [s EXCEPT !.pending_a[pair_id][caller] = @ + amount]
                    ELSE [s EXCEPT !.pending_b[pair_id][caller] = @ + amount]
  IN  track_pending_user_add(s1, pair_id, caller, had_pending)

\* fn deposit_pending_a; payment is the single KDA transfer [token, amount]
deposit_pending_a(s, caller, pair_id, payment) ==
  LET c == Ctx(s) IN
  IF ~pair_exists(s, pair_id) THEN Fail(c, "Pair does not exist")
  ELSE IF s.pair_token_a_is_klv[pair_id] THEN Fail(c, "Use depositPendingAKlv for KLV")
  ELSE IF ~(payment.token = s.pair_token_a[pair_id]) THEN Fail(c, "Wrong token - expected token A")
  ELSE IF ~(payment.amount > 0) THEN Fail(c, "Amount must be > 0")
  ELSE [c EXCEPT !.st = deposit_pending(s, pair_id, caller, payment.amount, TRUE)]

\* fn deposit_pending_a_klv; amount is the KLV value of the call
deposit_pending_a_klv(s, caller, pair_id, amount) ==
  LET c == Ctx(s) IN
  IF ~pair_exists(s, pair_id) THEN Fail(c, "Pair does not exist")
  ELSE IF ~s.pair_token_a_is_klv[pair_id] THEN Fail(c, "Token A is not KLV")
  ELSE IF ~(amount > 0) THEN Fail(c, "Amount must be > 0")
  ELSE [c EXCEPT !.st = deposit_pending(s, pair_id, caller, amount, TRUE)]

\* fn deposit_pending_b
deposit_pending_b(s, caller, pair_id, payment) ==
  LET c == Ctx(s) IN
  IF ~pair_exists(s, pair_id) THEN Fail(c, "Pair does not exist")
  ELSE IF s.pair_token_b_is_klv[pair_id] THEN Fail(c, "Use depositPendingBKlv for KLV")
  ELSE IF ~(payment.token = s.pair_token_b[pair_id]) THEN Fail(c, "Wrong token - expected token B")
  ELSE IF ~(payment.amount > 0) THEN Fail(c, "Amount must be > 0")
  ELSE [c EXCEPT !.st = deposit_pending(s, pair_id, caller, payment.amount, FALSE)]

\* fn deposit_pending_b_klv
deposit_pending_b_klv(s, caller, pair_id, amount) ==
  LET c == Ctx(s) IN
  IF ~pair_exists(s, pair_id) THEN Fail(c, "Pair does not exist")
  ELSE IF ~s.pair_token_b_is_klv[pair_id] THEN Fail(c, "Token B is not KLV")
  ELSE IF ~(amount > 0) THEN Fail(c, "Amount must be > 0")
  ELSE [c EXCEPT !.st = deposit_pending(s, pair_id, caller, amount, FALSE)]

\* finalize_finish that adds the used amount to reserve A only
finalize_finish_one_sided(c, s, pair_id, caller, min_shares, pend_a, pend_b, use_a, use_b, shares) ==
  IF ~(shares >= min_shares) THEN Fail(c, "Slippage: shares below minimum")
  ELSE IF ~(shares > 0) THEN Fail(c, "Shares must be > 0")
  ELSE
    LET c1 == claim_pending_fees_internal(c, pair_id, caller)
        new_pending_a == pend_a - use_a
        new_pending_b == pend_b - use_b
        s2 == [c1.st EXCEPT !.pending_a[pair_id][caller] = new_pending_a,
                            !.pending_b[pair_id][caller] = new_pending_b]
        s3 == IF new_pending_a = 0 /\ new_pending_b = 0
              THEN [s2 EXCEPT !.pair_pending_user_count[pair_id] = IF @ > 0 THEN @ - 1 ELSE @]
              ELSE s2
        s4 == [s3 EXCEPT !.pair_reserve_a[pair_id] = @ + use_a]
        s5 == add_lp_shares(s4, pair_id, caller, shares)
    IN  [c1 EXCEPT !.st = s5, !.ret = shares]

\* finalize_liquidity from the slippage check on (lib_v5.rs 578-604)
finalize_finish(c, s, pair_id, caller, min_shares, pend_a, pend_b, use_a, use_b, shares) ==
  IF ~(shares >= min_shares) THEN Fail(c, "Slippage: shares below minimum")
  ELSE IF ~(shares > 0) THEN Fail(c, "Shares must be > 0")
  ELSE
    LET c1 == claim_pending_fees_internal(c, pair_id, caller)
        new_pending_a == pend_a - use_a
        new_pending_b == pend_b - use_b
        s2 == [c1.st EXCEPT !.pending_a[pair_id][caller] = new_pending_a,
                            !.pending_b[pair_id][caller] = new_pending_b]
        s3 == IF new_pending_a = 0 /\ new_pending_b = 0
              THEN [s2 EXCEPT !.pair_pending_user_count[pair_id] = IF @ > 0 THEN @ - 1 ELSE @]
              ELSE s2
        s4 == [s3 EXCEPT !.pair_reserve_a[pair_id] = @ + use_a,
                         !.pair_reserve_b[pair_id] = @ + use_b]
        s5 == add_lp_shares(s4, pair_id, caller, shares)
    IN  [c1 EXCEPT !.st = s5, !.ret = shares]

\* fn finalize_liquidity
finalize_liquidity(s, caller, pair_id, min_shares) ==
  LET c == Ctx(s) IN
  IF ~pair_exists(s, pair_id) THEN Fail(c, "Pair does not exist")
  ELSE IF ~s.pair_is_active[pair_id] THEN Fail(c, "Pair is not active")
  ELSE
    LET pend_a == s.pending_a[pair_id][caller]
        pend_b == s.pending_b[pair_id][caller]
        reserve_a == s.pair_reserve_a[pair_id]
        reserve_b == s.pair_reserve_b[pair_id]
    IN
    IF ~(pend_a > 0) THEN Fail(c, "No pending token A")
    ELSE IF ~(pend_b > 0) THEN Fail(c, "No pending token B")
    ELSE IF reserve_a = 0 \/ reserve_b = 0
    THEN
      LET product == BigMul(ToBig(pend_a), ToBig(pend_b))
          sqrt_shares == BigSqrt(product)
      IN  IF BigLt(product, ToBig(MINIMUM_LIQUIDITY * MINIMUM_LIQUIDITY))
          THEN Fail(c, "Initial liquidity too small")
          ELSE IF ~(sqrt_shares > MINIMUM_LIQUIDITY) THEN Fail(c, "Initial liquidity too small")
          ELSE finalize_finish(c, s, pair_id, caller, min_shares, pend_a, pend_b,
                               pend_a, pend_b, sqrt_shares - MINIMUM_LIQUIDITY)
    ELSE
      LET b_needed == (pend_a * reserve_b) \div reserve_a
          a_needed == (pend_b * reserve_a) \div reserve_b
          use_a == IF b_needed <= pend_b THEN pend_a ELSE a_needed
          use_b == IF b_needed <= pend_b THEN b_needed ELSE pend_b
      IN
      IF ~(use_a > 0 /\ use_b > 0) THEN Fail(c, "Amounts too small to match")
      ELSE
        LET total_shares == get_total_shares_internal(s, pair_id)
            shares_a == (use_a * total_shares) \div reserve_a
            shares_b == (use_b * total_shares) \div reserve_b
            shares == IF shares_a < shares_b THEN shares_a ELSE shares_b
        IN  finalize_finish(c, s, pair_id, caller, min_shares, pend_a, pend_b,
                            use_a, use_b, shares)

\* fn withdraw_pending_a
withdraw_pending_a(s, caller, pair_id) ==
  LET c == Ctx(s) IN
  IF ~pair_exists(s, pair_id) THEN Fail(c, "Pair does not exist")
  ELSE
    LET pend_a == s.pending_a[pair_id][caller] IN
    IF ~(pend_a > 0) THEN Fail(c, "No pending token A to withdraw")
    ELSE
      LET had_pending == user_has_pending(s, pair_id, caller)
          s1 == [s EXCEPT !.pending_a[pair_id][caller] = 0]
          s2 == track_pending_user_remove(s1, pair_id, caller, had_pending)
      IN  send_token_internal([c EXCEPT !.st = s2], caller, s.pair_token_a[pair_id],
                              s.pair_token_a_is_klv[pair_id], pend_a)

\* fn withdraw_pending_b
withdraw_pending_b(s, caller, pair_id) ==
  LET c == Ctx(s) IN
  IF ~pair_exists(s, pair_id) THEN Fail(c, "Pair does not exist")
  ELSE
    LET pend_b == s.pending_b[pair_id][caller] IN
    IF ~(pend_b > 0) THEN Fail(c, "No pending token B to withdraw")
    ELSE
      LET had_pending == user_has_pending(s, pair_id, caller)
          s1 == [s EXCEPT !.pending_b[pair_id][caller] = 0]
          s2 == track_pending_user_remove(s1, pair_id, caller, had_pending)
      IN  send_token_internal([c EXCEPT !.st = s2], caller, s.pair_token_b[pair_id],
                              s.pair_token_b_is_klv[pair_id], pend_b)

\* fn withdraw_pending_all
withdraw_pending_all(s, caller, pair_id) ==
  LET c == Ctx(s) IN
  IF ~pair_exists(s, pair_id) THEN Fail(c, "Pair does not exist")
  ELSE
    LET pend_a == s.pending_a[pair_id][caller]
        pend_b == s.pending_b[pair_id][caller]
    IN
    IF ~(pend_a > 0 \/ pend_b > 0) THEN Fail(c, "No pending deposits")
    ELSE
      LET s1 == [s EXCEPT !.pending_a[pair_id][caller] = 0,
                          !.pending_b[pair_id][caller] = 0]
          s2 == track_pending_user_remove(s1, pair_id, caller, TRUE)
          c1 == [c EXCEPT !.st = s2]
          c2 == IF pend_a > 0
                THEN send_token_internal(c1, caller, s.pair_token_a[pair_id],
                                         s.pair_token_a_is_klv[pair_id], pend_a)
                ELSE c1
      IN  IF pend_b > 0
          THEN send_token_internal(c2, caller, s.pair_token_b[pair_id],
                                   s.pair_token_b_is_klv[pair_id], pend_b)
          ELSE c2

\* remove_liquidity with both payouts rounded up
remove_liquidity_rounded_up(s, caller, pair_id, shares_to_remove) ==
  LET c == Ctx(s) IN
  IF ~pair_exists(s, pair_id) THEN Fail(c, "Pair does not exist")
  ELSE
    LET my_shares == s.lp_shares[pair_id][caller] IN
    IF ~(shares_to_remove <= my_shares) THEN Fail(c, "Insufficient LP shares")
    ELSE IF ~(shares_to_remove > 0) THEN Fail(c, "Shares must be > 0")
    ELSE
      LET c1 == claim_pending_fees_internal(c, pair_id, caller)
          s1 == c1.st
          total_shares == get_total_shares_internal(s1, pair_id)
          reserve_a == s1.pair_reserve_a[pair_id]
          reserve_b == s1.pair_reserve_b[pair_id]
          amount_a == ((shares_to_remove * reserve_a) + total_shares - 1) \div total_shares
          amount_b == ((shares_to_remove * reserve_b) + total_shares - 1) \div total_shares
      IN
      IF ~(amount_a > 0 \/ amount_b > 0) THEN Fail(c1, "Withdrawal too small")
      ELSE
        LET new_lp_shares == my_shares - shares_to_remove
            s2 == IF new_lp_shares = 0
                  THEN [s1 EXCEPT !.lp_shares[pair_id][caller] = 0,
                                  !.lp_entry_index_a[pair_id][caller] = <<>>,
                                  !.lp_entry_index_b[pair_id][caller] = <<>>,
                                  !.lp_list[pair_id] = @ \ {caller}]
                  ELSE [s1 EXCEPT !.lp_shares[pair_id][caller] = new_lp_shares]
            s3 == [s2 EXCEPT !.total_lp_shares[pair_id] = @ - shares_to_remove,
                             !.pair_reserve_a[pair_id] = reserve_a - amount_a,
                             !.pair_reserve_b[pair_id] = reserve_b - amount_b]
            c3 == [Pass(c1) EXCEPT !.st = s3]
            c4 == IF amount_a > 0
                  THEN send_token_internal(c3, caller, s.pair_token_a[pair_id],
                                           s.pair_token_a_is_klv[pair_id], amount_a)
                  ELSE c3
        IN  IF amount_b > 0
            THEN send_token_internal(c4, caller, s.pair_token_b[pair_id],
                                     s.pair_token_b_is_klv[pair_id], amount_b)
            ELSE c4

\* remove_liquidity that keeps an account with no shares left as a member
remove_liquidity_keeps_member(s, caller, pair_id, shares_to_remove) ==
  LET c == Ctx(s) IN
  IF ~pair_exists(s, pair_id) THEN Fail(c, "Pair does not exist")
  ELSE
    LET my_shares == s.lp_shares[pair_id][caller] IN
    IF ~(shares_to_remove <= my_shares) THEN Fail(c, "Insufficient LP shares")
    ELSE IF ~(shares_to_remove > 0) THEN Fail(c, "Shares must be > 0")
    ELSE
      LET c1 == claim_pending_fees_internal(c, pair_id, caller)
          s1 == c1.st
          total_shares == get_total_shares_internal(s1, pair_id)
          reserve_a == s1.pair_reserve_a[pair_id]
          reserve_b == s1.pair_reserve_b[pair_id]
          amount_a == (shares_to_remove * reserve_a) \div total_shares
          amount_b == (shares_to_remove * reserve_b) \div total_shares
      IN
      IF ~(amount_a > 0 \/ amount_b > 0) THEN Fail(c1, "Withdrawal too small")
      ELSE
        LET new_lp_shares == my_shares - shares_to_remove
            s2 == [s1 EXCEPT !.lp_shares[pair_id][caller] = new_lp_shares]
            s3 == [s2 EXCEPT !.total_lp_shares[pair_id] = @ - shares_to_remove,
                             !.pair_reserve_a[pair_id] = reserve_a - amount_a,
                             !.pair_reserve_b[pair_id] = reserve_b - amount_b]
            c3 == [Pass(c1) EXCEPT !.st = s3]
            c4 == IF amount_a > 0
                  THEN send_token_internal(c3, caller, s.pair_token_a[pair_id],
                                           s.pair_token_a_is_klv[pair_id], amount_a)
                  ELSE c3
        IN  IF amount_b > 0
            THEN send_token_internal(c4, caller, s.pair_token_b[pair_id],
                                     s.pair_token_b_is_klv[pair_id], amount_b)
            ELSE c4

\* fn remove_liquidity
remove_liquidity(s, caller, pair_id, shares_to_remove) ==
  LET c == Ctx(s) IN
  IF ~pair_exists(s, pair_id) THEN Fail(c, "Pair does not exist")
  ELSE
    LET my_shares == s.lp_shares[pair_id][caller] IN
    IF ~(shares_to_remove <= my_shares) THEN Fail(c, "Insufficient LP shares")
    ELSE IF ~(shares_to_remove > 0) THEN Fail(c, "Shares must be > 0")
    ELSE
      LET c1 == claim_pending_fees_internal(c, pair_id, caller)
          s1 == c1.st
          total_shares == get_total_shares_internal(s1, pair_id)
          reserve_a == s1.pair_reserve_a[pair_id]
          reserve_b == s1.pair_reserve_b[pair_id]
          amount_a == (shares_to_remove * reserve_a) \div total_shares
          amount_b == (shares_to_remove * reserve_b) \div total_shares
      IN
      IF ~(amount_a > 0 \/ amount_b > 0) THEN Fail(c1, "Withdrawal too small")
      ELSE
        LET new_lp_shares == my_shares - shares_to_remove
            s2 == IF new_lp_shares = 0
                  THEN [s1 EXCEPT !.lp_shares[pair_id][caller] = 0,
                                  !.lp_entry_index_a[pair_id][caller] = <<>>,
                                  !.lp_entry_index_b[pair_id][caller] = <<>>,
                                  !.lp_list[pair_id] = @ \ {caller}]
                  ELSE [s1 EXCEPT !.lp_shares[pair_id][caller] = new_lp_shares]
            s3 == [s2 EXCEPT !.total_lp_shares[pair_id] = @ - shares_to_remove,
                             !.pair_reserve_a[pair_id] = reserve_a - amount_a,
                             !.pair_reserve_b[pair_id] = reserve_b - amount_b]
            c3 == [Pass(c1) EXCEPT !.st = s3]
            c4 == IF amount_a > 0
                  THEN send_token_internal(c3, caller, s.pair_token_a[pair_id],
                                           s.pair_token_a_is_klv[pair_id], amount_a)
                  ELSE c3
        IN  IF amount_b > 0
            THEN send_token_internal(c4, caller, s.pair_token_b[pair_id],
                                     s.pair_token_b_is_klv[pair_id], amount_b)
            ELSE c4

\* claim_lp_fees that is open on active pairs only
claim_lp_fees_active_only(s, caller, pair_id) ==
  LET c == Ctx(s) IN
  IF ~pair_exists(s, pair_id) THEN Fail(c, "Pair does not exist")
  ELSE IF ~s.pair_is_active[pair_id] THEN Fail(c, "Pair is not active")
  ELSE IF ~(caller \in s.lp_list[pair_id]) THEN Fail(c, "Not an LP for this pair")
  ELSE claim_pending_fees_internal(c, pair_id, caller)

\* fn claim_lp_fees
claim_lp_fees(s, caller, pair_id) ==
  LET c == Ctx(s) IN
  IF ~pair_exists(s, pair_id) THEN Fail(c, "Pair does not exist")
  ELSE IF ~(caller \in s.lp_list[pair_id]) THEN Fail(c, "Not an LP for this pair")
  ELSE claim_pending_fees_internal(c, pair_id, caller)

\* the output formula with the payment left out of the divisor
swap_output_spot_price(payment, reserve_in, reserve_out) ==
  (payment * reserve_out) \div reserve_in

\* the output formula rounding up instead of down
swap_output_rounded_up(payment, reserve_in, reserve_out) ==
  ((payment * reserve_out) + reserve_in + payment - 1) \div (reserve_in + payment)

\* constant product: output = payment * reserve_out / (reserve_in + payment)
swap_output(payment, reserve_in, reserve_out) ==
  (payment * reserve_out) \div (reserve_in + payment)

\* the swap body with the minimum compared to the output before the fee
swap_body_minimum_on_raw_output(c, s, caller, pair_id, payment, min_output, a_in) ==
  LET reserve_a == s.pair_reserve_a[pair_id]
      reserve_b == s.pair_reserve_b[pair_id]
  IN
  IF ~(reserve_a > 0 /\ reserve_b > 0) THEN Fail(c, "Reserves empty")
  ELSE
    LET reserve_in == IF a_in THEN reserve_a ELSE reserve_b
        reserve_out == IF a_in THEN reserve_b ELSE reserve_a
        output == swap_output(payment, reserve_in, reserve_out)
    IN
    IF ~(output > 0 /\ output < reserve_out) THEN Fail(c, "Invalid output")
    ELSE
      LET fee_percent == s.pair_fee_percent[pair_id]
          fee == (output * fee_percent) \div 100
          user_gets == output - fee
      IN
      IF ~(user_gets > 0) THEN Fail(c, "Output too small after fee")
      ELSE IF ~(output >= min_output) THEN Fail(c, "Slippage: output below minimum")
      ELSE
        LET s1 == IF a_in
                  THEN [s EXCEPT !.pair_reserve_a[pair_id] = reserve_a + payment,
                                 !.pair_reserve_b[pair_id] = reserve_b - output]
                  ELSE [s EXCEPT !.pair_reserve_b[pair_id] = reserve_b + payment,
                                 !.pair_reserve_a[pair_id] = reserve_a - output]
            s2 == distribute_fee(s1, pair_id, fee, ~a_in)
            c2 == [c EXCEPT !.st = s2, !.raw = output, !.fee = fee]
        IN  IF a_in
            THEN send_token_internal(c2, caller, s.pair_token_b[pair_id],
                                     s.pair_token_b_is_klv[pair_id], user_gets)
            ELSE send_token_internal(c2, caller, s.pair_token_a[pair_id],
                                     s.pair_token_a_is_klv[pair_id], user_gets)

\* the swap body that takes only the user amount out of the output reserve
swap_body_fee_left_in_pool(c, s, caller, pair_id, payment, min_output, a_in) ==
  LET reserve_a == s.pair_reserve_a[pair_id]
      reserve_b == s.pair_reserve_b[pair_id]
  IN
  IF ~(reserve_a > 0 /\ reserve_b > 0) THEN Fail(c, "Reserves empty")
  ELSE
    LET reserve_in == IF a_in THEN reserve_a ELSE reserve_b
        reserve_out == IF a_in THEN reserve_b ELSE reserve_a
        output == swap_output(payment, reserve_in, reserve_out)
    IN
    IF ~(output > 0 /\ output < reserve_out) THEN Fail(c, "Invalid output")
    ELSE
      LET fee_percent == s.pair_fee_percent[pair_id]
          fee == (output * fee_percent) \div 100
          user_gets == output - fee
      IN
      IF ~(user_gets > 0) THEN Fail(c, "Output too small after fee")
      ELSE IF ~(user_gets >= min_output) THEN Fail(c, "Slippage: output below minimum")
      ELSE
        LET s1 == IF a_in
                  THEN [s EXCEPT !.pair_reserve_a[pair_id] = reserve_a + payment,
                                 !.pair_reserve_b[pair_id] = reserve_b - user_gets]
                  ELSE [s EXCEPT !.pair_reserve_b[pair_id] = reserve_b + payment,
                                 !.pair_reserve_a[pair_id] = reserve_a - user_gets]
            s2 == distribute_fee(s1, pair_id, fee, ~a_in)
            c2 == [c EXCEPT !.st = s2, !.raw = output, !.fee = fee]
        IN  IF a_in
            THEN send_token_internal(c2, caller, s.pair_token_b[pair_id],
                                     s.pair_token_b_is_klv[pair_id], user_gets)
            ELSE send_token_internal(c2, caller, s.pair_token_a[pair_id],
                                     s.pair_token_a_is_klv[pair_id], user_gets)

\* the body the four swap endpoints share, from the "Reserves empty" check on;
\* a_in: token A is paid in and token B is paid out
swap_body(c, s, caller, pair_id, payment, min_output, a_in) ==
  LET reserve_a == s.pair_reserve_a[pair_id]
      reserve_b == s.pair_reserve_b[pair_id]
  IN
  IF ~(reserve_a > 0 /\ reserve_b > 0) THEN Fail(c, "Reserves empty")
  ELSE
    LET reserve_in == IF a_in THEN reserve_a ELSE reserve_b
        reserve_out == IF a_in THEN reserve_b ELSE reserve_a
        output == swap_output(payment, reserve_in, reserve_out)
    IN
    IF ~(output > 0 /\ output < reserve_out) THEN Fail(c, "Invalid output")
    ELSE
      LET fee_percent == s.pair_fee_percent[pair_id]
          fee == (output * fee_percent) \div 100
          user_gets == output - fee
      IN
      IF ~(user_gets > 0) THEN Fail(c, "Output too small after fee")
      ELSE IF ~(user_gets >= min_output) THEN Fail(c, "Slippage: output below minimum")
      ELSE
        LET s1 == IF a_in
                  THEN [s EXCEPT !.pair_reserve_a[pair_id] = reserve_a + payment,
                                 !.pair_reserve_b[pair_id] = reserve_b - output]
                  ELSE [s EXCEPT !.pair_reserve_b[pair_id] = reserve_b + payment,
                                 !.pair_reserve_a[pair_id] = reserve_a - output]
            s2 == distribute_fee(s1, pair_id, fee, ~a_in)
            c2 == [c EXCEPT !.st = s2, !.raw = output, !.fee = fee]
        IN  IF a_in
            THEN send_token_internal(c2, caller, s.pair_token_b[pair_id],
                                     s.pair_token_b_is_klv[pair_id], user_gets)
            ELSE send_token_internal(c2, caller, s.pair_token_a[pair_id],
                                     s.pair_token_a_is_klv[pair_id], user_gets)

\* fn swap_a_to_b; payment is the single KDA transfer [token, amount]
swap_a_to_b(s, caller, pair_id, min_output, payment) ==
  LET c == Ctx(s) IN
  IF ~pair_exists(s, pair_id) THEN Fail(c, "Pair does not exist")
  ELSE IF ~s.pair_is_active[pair_id] THEN Fail(c, "Pair is not active")
  ELSE IF s.pair_token_a_is_klv[pair_id] THEN Fail(c, "Use swapKlvToB for KLV input")
  ELSE IF ~(payment.token = s.pair_token_a[pair_id]) THEN Fail(c, "Wrong token sent")
  ELSE IF ~(payment.amount > 0) THEN Fail(c, "Payment must be greater than 0")
  ELSE swap_body(c, s, caller, pair_id, payment.amount, min_output, TRUE)

\* fn swap_b_to_a
swap_b_to_a(s, caller, pair_id, min_output, payment) ==
  LET c == Ctx(s) IN
  IF ~pair_exists(s, pair_id) THEN Fail(c, "Pair does not exist")
  ELSE IF ~s.pair_is_active[pair_id] THEN Fail(c, "Pair is not active")
  ELSE IF s.pair_token_b_is_klv[pair_id] THEN Fail(c, "Use swapKlvToA for KLV input")
  ELSE IF ~(payment.token = s.pair_token_b[pair_id]) THEN Fail(c, "Wrong token sent")
  ELSE IF ~(payment.amount > 0) THEN Fail(c, "Payment must be greater than 0")
  ELSE swap_body(c, s, caller, pair_id, payment.amount, min_output, FALSE)

\* fn swap_klv_to_b; payment is the KLV value of the call
swap_klv_to_b(s, caller, pair_id, min_output, payment) ==
  LET c == Ctx(s) IN
  IF ~pair_exists(s, pair_id) THEN Fail(c, "Pair does not exist")
  ELSE IF ~s.pair_is_active[pair_id] THEN Fail(c, "Pair is not active")
  ELSE IF ~s.pair_token_a_is_klv[pair_id] THEN Fail(c, "Token A is not KLV")
  ELSE IF ~(payment > 0) THEN Fail(c, "Payment must be greater than 0")
  ELSE swap_body(c, s, caller, pair_id, payment, min_output, TRUE)

\* fn swap_klv_to_a
swap_klv_to_a(s, caller, pair_id, min_output, payment) ==
  LET c == Ctx(s) IN
  IF ~pair_exists(s, pair_id) THEN Fail(c, "Pair does not exist")
  ELSE IF ~s.pair_is_active[pair_id] THEN Fail(c, "Pair is not active")
  ELSE IF ~s.pair_token_b_is_klv[pair_id] THEN Fail(c, "Token B is not KLV")
  ELSE IF ~(payment > 0) THEN Fail(c, "Payment must be greater than 0")
  ELSE swap_body(c, s, caller, pair_id, payment, min_output, FALSE)

(***************************************************************************)
(* Views: the quotes of a swap.  Each yields <<amount, fee>>.               *)
(***************************************************************************)

\* quote_swap that reports the output before the fee
quote_swap_before_fee(s, pair_id, input_amount, is_a_to_b) ==
  IF ~pair_exists(s, pair_id) THEN <<0, 0>>
  ELSE
    LET reserve_a == s.pair_reserve_a[pair_id]
        reserve_b == s.pair_reserve_b[pair_id]
    IN
    IF reserve_a = 0 \/ reserve_b = 0 \/ input_amount = 0 THEN <<0, 0>>
    ELSE
      LET reserve_in == IF is_a_to_b THEN reserve_a ELSE reserve_b
          reserve_out == IF is_a_to_b THEN reserve_b ELSE reserve_a
          output == (input_amount * reserve_out) \div (reserve_in + input_amount)
      IN
      IF output = 0 \/ output >= reserve_out THEN <<0, 0>>
      ELSE << output, (output * s.pair_fee_percent[pair_id]) \div 100 >>

\* fn quote_swap (view)
quote_swap(s, pair_id, input_amount, is_a_to_b) ==
  IF ~pair_exists(s, pair_id) THEN <<0, 0>>
  ELSE
    LET reserve_a == s.pair_reserve_a[pair_id]
        reserve_b == s.pair_reserve_b[pair_id]
    IN
    IF reserve_a = 0 \/ reserve_b = 0 \/ input_amount = 0 THEN <<0, 0>>
    ELSE
      LET reserve_in == IF is_a_to_b THEN reserve_a ELSE reserve_b
          reserve_out == IF is_a_to_b THEN reserve_b ELSE reserve_a
          output == (input_amount * reserve_out) \div (reserve_in + input_amount)
      IN
      IF output = 0 \/ output >= reserve_out THEN <<0, 0>>
      ELSE
        LET fee_percent == s.pair_fee_percent[pair_id]
            fee == (output * fee_percent) \div 100
            user_gets == output - fee
        IN  << user_gets, fee >>

\* quote_swap_reverse without the one added for rounding up
quote_swap_reverse_rounded_down(s, pair_id, desired_output, is_a_to_b) ==
  IF ~pair_exists(s, pair_id) THEN <<0, 0>>
  ELSE
    LET reserve_a == s.pair_reserve_a[pair_id]
        reserve_b == s.pair_reserve_b[pair_id]
    IN
    IF reserve_a = 0 \/ reserve_b = 0 \/ desired_output = 0 THEN <<0, 0>>
    ELSE
      LET reserve_in == IF is_a_to_b THEN reserve_a ELSE reserve_b
          reserve_out == IF is_a_to_b THEN reserve_b ELSE reserve_a
          fee_percent == s.pair_fee_percent[pair_id]
          output_raw == (desired_output * 100) \div (100 - fee_percent)
      IN
      IF output_raw >= reserve_out THEN <<0, 0>>
      ELSE << (reserve_in * output_raw) \div (reserve_out - output_raw),
              (output_raw * fee_percent) \div 100 >>

\* fn quote_swap_reverse (view)
quote_swap_reverse(s, pair_id, desired_output, is_a_to_b) ==
  IF ~pair_exists(s, pair_id) THEN <<0, 0>>
  ELSE
    LET reserve_a == s.pair_reserve_a[pair_id]
        reserve_b == s.pair_reserve_b[pair_id]
    IN
    IF reserve_a = 0 \/ reserve_b = 0 \/ desired_output = 0 THEN <<0, 0>>
    ELSE
      LET reserve_in == IF is_a_to_b THEN reserve_a ELSE reserve_b
          reserve_out == IF is_a_to_b THEN reserve_b ELSE reserve_a
          fee_percent == s.pair_fee_percent[pair_id]
          output_raw == (desired_output * 100) \div (100 - fee_percent)
      IN
      IF output_raw >= reserve_out THEN <<0, 0>>
      ELSE
        LET required_input == (reserve_in * output_raw) \div (reserve_out - output_raw)
            fee == (output_raw * fee_percent) \div 100
        IN  << required_input + 1, fee >>

(***************************************************************************)
(* The state machine.  One action per endpoint; the call's inputs are      *)
(* drawn from the sets above.                                              *)
(***************************************************************************)
NoArg == [a |-> 0, b |-> 0, m |-> 0]

Init ==
  /\ next_pair_id = InitStorage.next_pair_id
  /\ registered_pair_ids = InitStorage.registered_pair_ids
  /\ pair_creator = InitStorage.pair_creator
  /\ pair_token_a = InitStorage.pair_token_a
  /\ pair_token_b = InitStorage.pair_token_b
  /\ pair_token_a_is_klv = InitStorage.pair_token_a_is_klv
  /\ pair_token_b_is_klv = InitStorage.pair_token_b_is_klv
  /\ pair_reserve_a = InitStorage.pair_reserve_a
  /\ pair_reserve_b = InitStorage.pair_reserve_b
  /\ pair_fee_percent = InitStorage.pair_fee_percent
  /\ pair_is_active = InitStorage.pair_is_active
  /\ owner_shares = InitStorage.owner_shares
  /\ total_lp_shares = InitStorage.total_lp_shares
  /\ lp_list = InitStorage.lp_list
  /\ lp_shares = InitStorage.lp_shares
  /\ owner_unclaimed_fees_a = InitStorage.owner_unclaimed_fees_a
  /\ owner_unclaimed_fees_b = InitStorage.owner_unclaimed_fees_b
  /\ fee_per_share_a = InitStorage.fee_per_share_a
  /\ fee_per_share_b = InitStorage.fee_per_share_b
  /\ lp_entry_index_a = InitStorage.lp_entry_index_a
  /\ lp_entry_index_b = InitStorage.lp_entry_index_b
  /\ pending_a = InitStorage.pending_a
  /\ pending_b = InitStorage.pending_b
  /\ pair_pending_user_count = InitStorage.pair_pending_user_count
  /\ last = [op |-> "init", pair |-> 0, caller |-> NoAddr, arg |-> NoArg,
             out |-> <<>>, ret |-> 0, raw |-> 0, fee |-> 0, late |-> FALSE]
  /\ prev = InitStorage
  /\ ops = 0
  /\ held_a = [p \in PairIds |-> 0]
  /\ held_b = [p \in PairIds |-> 0]

\* the storage after the call is what the executed call left
Commit(s) ==
  /\ next_pair_id' = s.next_pair_id
  /\ registered_pair_ids' = s.registered_pair_ids
  /\ pair_creator' = s.pair_creator
  /\ pair_token_a' = s.pair_token_a
  /\ pair_token_b' = s.pair_token_b
  /\ pair_token_a_is_klv' = s.pair_token_a_is_klv
  /\ pair_token_b_is_klv' = s.pair_token_b_is_klv
  /\ pair_reserve_a' = s.pair_reserve_a
  /\ pair_reserve_b' = s.pair_reserve_b
  /\ pair_fee_percent' = s.pair_fee_percent
  /\ pair_is_active' = s.pair_is_active
  /\ owner_shares' = s.owner_shares
  /\ total_lp_shares' = s.total_lp_shares
  /\ lp_list' = s.lp_list
  /\ lp_shares' = s.lp_shares
  /\ owner_unclaimed_fees_a' = s.owner_unclaimed_fees_a
  /\ owner_unclaimed_fees_b' = s.owner_unclaimed_fees_b
  /\ fee_per_share_a' = s.fee_per_share_a
  /\ fee_per_share_b' = s.fee_per_share_b
  /\ lp_entry_index_a' = s.lp_entry_index_a
  /\ lp_entry_index_b' = s.lp_entry_index_b
  /\ pending_a' = s.pending_a
  /\ pending_b' = s.pending_b
  /\ pair_pending_user_count' = s.pair_pending_user_count

\* a run is followed for MaxOps calls
Ready == ops < MaxOps

\* the total amount of one asset among the transfers out
RECURSIVE AmountOf(_, _)
AmountOf(out, token) ==
  IF out = <<>> THEN 0
  ELSE (IF Head(out).token = token THEN Head(out).amount ELSE 0)
       + AmountOf(Tail(out), token)

\* the asset of a side as send_token_internal names it in a transfer
AssetA(s, pair_id) == IF s.pair_token_a_is_klv[pair_id] THEN "KLV" ELSE s.pair_token_a[pair_id]
AssetB(s, pair_id) == IF s.pair_token_b_is_klv[pair_id] THEN "KLV" ELSE s.pair_token_b[pair_id]

\* the amount of each side's asset attached to a call
AttachedA(op, arg) ==
  IF op \in {"mint", "deposit_pending_a", "swap_a_to_b"} THEN arg.a ELSE 0
AttachedB(op, arg) ==
  IF op \in {"mint", "deposit_pending_b", "swap_b_to_a"} THEN arg.b ELSE 0

\* One accepted call: the endpoint ran on the current storage and returned.  A
\* call that fails a require! is reverted and is no step of the machine.
Call(op, pair_id, caller, arg, c) ==
  /\ c.err = ""
  /\ held_a' = [held_a EXCEPT ![pair_id] =
                  @ + AttachedA(op, arg) - AmountOf(c.out, AssetA(St, pair_id))]
  /\ held_b' = [held_b EXCEPT ![pair_id] =
                  @ + AttachedB(op, arg) - AmountOf(c.out, AssetB(St, pair_id))]
  /\ Commit(c.st)
  /\ last' = [op |-> op, pair |-> pair_id, caller |-> caller, arg |-> arg,
              out |-> c.out, ret |-> c.ret, raw |-> c.raw, fee |-> c.fee,
              late |-> c.late]
  /\ prev' = St
  /\ ops' = ops + 1

TokenConfigs == { [a |-> "TKA", b |-> "TKB", a_klv |-> FALSE, b_klv |-> FALSE] }

\* the call value of a mint attaching amount a of token A and b of token B
\* (a zero amount is not attached at all)
MintValue(pair_id, a, b) ==
  LET ka == IF ~pair_token_a_is_klv[pair_id] /\ a > 0
            THEN << [token |-> pair_token_a[pair_id], amount |-> a] >> ELSE <<>>
      kb == IF ~pair_token_b_is_klv[pair_id] /\ b > 0
            THEN << [token |-> pair_token_b[pair_id], amount |-> b] >> ELSE <<>>
  IN  [klv |-> IF pair_token_a_is_klv[pair_id] THEN a
               ELSE IF pair_token_b_is_klv[pair_id] THEN b ELSE 0,
       kda |-> ka \o kb]

CreatePair ==
  \E caller \in {"u1"}, t \in TokenConfigs, fee \in FeePercents :
    /\ Ready
    /\ next_pair_id \in PairIds
    /\ Call("create_pair", next_pair_id, caller, [NoArg EXCEPT !.m = fee],
            create_pair(St, caller, t.a, t.b, t.a_klv, t.b_klv, fee))

DeletePair ==
  \E caller \in {"u1", "u2"}, p \in PairIds :
    /\ Ready
    /\ Call("delete_pair", p, caller, NoArg, delete_pair(St, caller, p))

OwnerClaimFees ==
  \E caller \in {Owner, "u2"}, p \in PairIds :
    /\ Ready
    /\ Call("owner_claim_fees", p, caller, NoArg, owner_claim_fees(St, caller, p))

Mint ==
  \E caller \in Accounts, p \in PairIds, o \in MintOffers, m \in MinBounds :
    /\ Ready
    /\ Call("mint", p, caller, [a |-> o[1], b |-> o[2], m |-> m],
         mint(St, caller, p, m, MintValue(p, o[1], o[2])))

DepositPendingA ==
  \E caller \in Accounts, p \in PairIds, x \in DepositsA :
    /\ Ready
    /\ Call("deposit_pending_a", p, caller, [NoArg EXCEPT !.a = x],
         deposit_pending_a(St, caller, p, [token |-> pair_token_a[p], amount |-> x]))

DepositPendingB ==
  \E caller \in Accounts, p \in PairIds, x \in DepositsB :
    /\ Ready
    /\ Call("deposit_pending_b", p, caller, [NoArg EXCEPT !.b = x],
         deposit_pending_b(St, caller, p, [token |-> pair_token_b[p], amount |-> x]))

FinalizeLiquidity ==
  \E caller \in Accounts, p \in PairIds, m \in MinBounds :
    /\ Ready
    /\ Call("finalize_liquidity", p, caller, [NoArg EXCEPT !.m = m],
         finalize_liquidity(St, caller, p, m))

WithdrawPendingA ==
  \E caller \in Accounts, p \in PairIds :
    /\ Ready
    /\ Call("withdraw_pending_a", p, caller, NoArg, withdraw_pending_a(St, caller, p))

WithdrawPendingB ==
  \E caller \in Accounts, p \in PairIds :
    /\ Ready
    /\ Call("withdraw_pending_b", p, caller, NoArg, withdraw_pending_b(St, caller, p))

WithdrawPendingAll ==
  \E caller \in Accounts, p \in PairIds :
    /\ Ready
    /\ Call("withdraw_pending_all", p, caller, NoArg, withdraw_pending_all(St, caller, p))

\* the share amounts a caller tries to burn: all, half, one too many, none
BurnChoices(p, caller) ==
  {lp_shares[p][caller], lp_shares[p][caller] \div 2, lp_shares[p][caller] + 1, 0}

RemoveLiquidity ==
  \E caller \in Accounts, p \in PairIds :
    \E n \in BurnChoices(p, caller) :
      /\ Ready
      /\ Call("remove_liquidity", p, caller, [NoArg EXCEPT !.a = n],
           remove_liquidity(St, caller, p, n))

ClaimLpFees ==
  \E caller \in Accounts, p \in PairIds :
    /\ Ready
    /\ Call("claim_lp_fees", p, caller, NoArg, claim_lp_fees(St, caller, p))

SwapAToB ==
  \E caller \in Traders, p \in PairIds, x \in SwapAmounts, m \in MinBounds :
    /\ Ready
    /\ Call("swap_a_to_b", p, caller, [NoArg EXCEPT !.a = x, !.m = m],
         swap_a_to_b(St, caller, p, m, [token |-> pair_token_a[p], amount |-> x]))

SwapBToA ==
  \E caller \in Traders, p \in PairIds, x \in SwapAmounts, m \in MinBounds :
    /\ Ready
    /\ Call("swap_b_to_a", p, caller, [NoArg EXCEPT !.b = x, !.m = m],
         swap_b_to_a(St, caller, p, m, [token |-> pair_token_b[p], amount |-> x]))

Next ==
  \/ CreatePair
  \/ DeletePair
  \/ OwnerClaimFees
  \/ Mint
  \/ DepositPendingA
  \/ DepositPendingB
  \/ FinalizeLiquidity
  \/ WithdrawPendingA
  \/ WithdrawPendingB
  \/ WithdrawPendingAll
  \/ RemoveLiquidity
  \/ ClaimLpFees
  \/ SwapAToB
  \/ SwapBToA

Spec == Init /\ [][Next]_vars

(***************************************************************************)
(* Properties                                                              *)
(***************************************************************************)
RECURSIVE SumOver(_, _)
SumOver(f, S) ==
  IF S = {} THEN 0
  ELSE LET a == CHOOSE x \in S : TRUE IN f[a] + SumOver(f, S \ {a})

IsSwap(op) == op \in {"swap_a_to_b", "swap_b_to_a"}

\* reserve_a * reserve_b of pair p in storage s
Product(s, p) == BigMul(ToBig(s.pair_reserve_a[p]), ToBig(s.pair_reserve_b[p]))

\* what the last swap paid in, and the reserves it met on the input and output side
SwapIn == IF last.op = "swap_a_to_b" THEN last.arg.a ELSE last.arg.b
SwapReserveIn ==
  IF last.op = "swap_a_to_b" THEN prev.pair_reserve_a[last.pair] ELSE prev.pair_reserve_b[last.pair]
SwapReserveOut ==
  IF last.op = "swap_a_to_b" THEN prev.pair_reserve_b[last.pair] ELSE prev.pair_reserve_a[last.pair]
\* the remainder of the division in the output formula
SwapRemainder == (SwapIn * SwapReserveOut) % (SwapReserveIn + SwapIn)

\* C1: in every reachable state and for every pair, total_lp_shares equals the
\* sum of lp_shares over all accounts.
C1_TotalIsSumOfShares ==
  \A p \in PairIds : total_lp_shares[p] = SumOver(lp_shares[p], Callers)

\* C1 witness: two accounts hold shares of a pair after one of them burned some.
C1_Witness ==
  /\ last.op = "remove_liquidity"
  /\ \E p \in PairIds : lp_shares[p]["u1"] > 0 /\ lp_shares[p]["u2"] > 0

\* C2: after every successful swap, in either direction, reserve_a * reserve_b
\* is at least what it was before the swap.
C2_ProductNonDecreasing ==
  IsSwap(last.op) => BigLe(Product(prev, last.pair), Product(St, last.pair))

\* C2 witness: a swap of token B for token A at the 10% fee rate has happened.
C2_Witness ==
  /\ last.op = "swap_b_to_a"
  /\ pair_fee_percent[last.pair] = 10
  /\ pair_reserve_b[last.pair] = prev.pair_reserve_b[last.pair] + last.arg.b

\* C3 as claimed: every successful swap strictly increases reserve_a * reserve_b.
C3_ProductStrictlyIncreases ==
  IsSwap(last.op) => BigLt(Product(prev, last.pair), Product(St, last.pair))

\* C3 amended: a successful swap raises reserve_a * reserve_b by exactly the
\* remainder of the division in the output formula, (payment * reserve_out) mod
\* (reserve_in + payment): the whole raw output, fee included, leaves the
\* reserve, so the product is unchanged when the division is exact.
C3_ProductGrowsByRemainder ==
  IsSwap(last.op) =>
    Product(St, last.pair) = BigAdd(Product(prev, last.pair), ToBig(SwapRemainder))

\* C3 witness: a swap with a non-zero fee whose division was exact, so that the
\* product is what it was.
C3_Witness ==
  /\ IsSwap(last.op)
  /\ last.fee > 0
  /\ SwapRemainder = 0
  /\ Product(St, last.pair) = Product(prev, last.pair)

\* C4: in every reachable state, for every pair, every LP and each side, the
\* LP's entry index is at most the pair's fee_per_share index of that side.
C4_EntryIndexAtMostGlobal ==
  \A p \in PairIds : \A a \in lp_list[p] :
    /\ BigLe(lp_entry_index_a[p][a], fee_per_share_a[p])
    /\ BigLe(lp_entry_index_b[p][a], fee_per_share_b[p])

\* C4 witness: an LP whose entry index lies strictly between zero and the
\* global index on some side.
C4_Witness ==
  \E p \in PairIds : \E a \in lp_list[p] :
    \/ lp_entry_index_a[p][a] # <<>> /\ BigLt(lp_entry_index_a[p][a], fee_per_share_a[p])
    \/ lp_entry_index_b[p][a] # <<>> /\ BigLt(lp_entry_index_b[p][a], fee_per_share_b[p])

\* a call that failed left the storage it met and dispatched no transfer
\* a failed call ends on the storage it began on and sends nothing
Untouched(c) == \A r \in { c } : r.err # "" => (r.st = r.st0 /\ r.out = <<>>)

\* a minimum no call can meet, a payment of nothing, a payment in a foreign token
TooMuch == 100 * MINIMUM_LIQUIDITY
Nothing(token) == [token |-> token, amount |-> 0]
Foreign == [token |-> "TKX", amount |-> 500]

SettlementTransfers(s, p, addr) ==
  LET f == calculate_lp_pending_fees(s, p, addr)
      ta == IF f[1] > 0
            THEN << [to |-> addr, token |-> s.pair_token_a[p], amount |-> f[1]] >> ELSE <<>>
      tb == IF f[2] > 0
            THEN << [to |-> addr, token |-> s.pair_token_b[p], amount |-> f[2]] >> ELSE <<>>
  IN  ta \o tb

ChangesShares(op) == op \in {"mint", "finalize_liquidity", "remove_liquidity"}

\* C6: mint, finalize_liquidity and remove_liquidity first pay the caller the
\* fees accrued on the shares held before the call, an account that is an LP
\* after the call has entry indices equal to the global indices, and right
\* after the call the caller's claimable fee is 0 on both sides.
C6_SettledBeforeSharesChange ==
  ChangesShares(last.op) =>
    LET p == last.pair
        a == last.caller
        paid == SettlementTransfers(prev, p, a)
    IN  /\ Len(last.out) >= Len(paid)
        /\ SubSeq(last.out, 1, Len(paid)) = paid
        /\ calculate_lp_pending_fees(St, p, a) = <<0, 0>>
        /\ a \in lp_list[p] =>
             /\ lp_entry_index_a[p][a] = fee_per_share_a[p]
             /\ lp_entry_index_b[p][a] = fee_per_share_b[p]

\* C6 witness: an LP with accrued fees has minted more shares.
C6_Witness ==
  /\ last.op = "mint"
  /\ last.caller \in prev.lp_list[last.pair]
  /\ SettlementTransfers(prev, last.pair, last.caller) # <<>>
  /\ lp_shares[last.pair][last.caller] > prev.lp_shares[last.pair][last.caller]

\* C7 as claimed: once a pool has reserves, remove_liquidity never brings
\* reserve_a or reserve_b back to zero.
C7_MinimumStaysLocked ==
  (last.op = "remove_liquidity" /\ prev.pair_reserve_a[last.pair] > 0) =>
    (pair_reserve_a[last.pair] > 0 /\ pair_reserve_b[last.pair] > 0)

\* C8: in every reachable state of every pair, reserve_a is zero iff reserve_b
\* is zero, and reserves that were non-zero are zero only after a
\* remove_liquidity that burned the last shares.
C8_ReservesZeroTogether ==
  \A p \in PairIds :
    /\ (pair_reserve_a[p] = 0) <=> (pair_reserve_b[p] = 0)
    /\ (prev.pair_reserve_a[p] > 0 /\ pair_reserve_a[p] = 0) =>
         (last.op = "remove_liquidity" /\ get_total_shares_internal(St, p) = 0)

\* C8 witness: two LPs, one burned all its shares, the reserves are still
\* non-zero on both sides.
C8_Witness ==
  /\ last.op = "remove_liquidity"
  /\ lp_shares[last.pair][last.caller] = 0
  /\ total_lp_shares[last.pair] > 0
  /\ pair_reserve_a[last.pair] > 0 /\ pair_reserve_b[last.pair] > 0

PendingUsers(p) == {a \in Callers : pending_a[p][a] > 0 \/ pending_b[p][a] > 0}

\* C9: in every reachable state a pair's pending-user counter is the number of
\* accounts whose pending_a or pending_b for the pair is non-zero.
C9_CounterIsPendingUsers ==
  \A p \in PairIds : pair_pending_user_count[p] = Cardinality(PendingUsers(p))

\* C9 witness: of two accounts with pending balances one finalized all it had,
\* which took the counter from 2 to 1.
C9_Witness ==
  /\ last.op = "finalize_liquidity"
  /\ prev.pair_pending_user_count[last.pair] = 2
  /\ pair_pending_user_count[last.pair] = 1

\* the withdraw_pending_a the caller of the last call would make right now
WithdrawNow == withdraw_pending_a(St, last.caller, last.pair)

\* reserves, share balances and total shares of pair p agree in s and t
SamePool(s, t, p) ==
  /\ s.pair_reserve_a[p] = t.pair_reserve_a[p]
  /\ s.pair_reserve_b[p] = t.pair_reserve_b[p]
  /\ s.lp_shares[p] = t.lp_shares[p]
  /\ s.total_lp_shares[p] = t.total_lp_shares[p]
  /\ s.owner_shares[p] = t.owner_shares[p]

\* C10 as claimed: right after a deposit of x of token A, withdraw_pending_a
\* transfers exactly x to the caller and leaves reserves, shares, total shares
\* and the pending-user counter as they were before the deposit.
C10_RoundTripReturnsDeposit ==
  last.op = "deposit_pending_a" =>
    LET w == WithdrawNow
        p == last.pair
    IN  /\ w.err = ""
        /\ w.out = << [to |-> last.caller, token |-> pair_token_a[p], amount |-> last.arg.a] >>
        /\ SamePool(w.st, prev, p)
        /\ w.st.pair_pending_user_count[p] = prev.pair_pending_user_count[p]

\* C10 amended: right after a deposit of x of token A, withdraw_pending_a
\* transfers the caller's whole pending A, which is x plus what was pending
\* before the deposit, zeroes it, and leaves reserves and shares as they were
\* before the deposit.  With no A pending before the deposit it transfers
\* exactly x and restores the whole storage; with A pending before and no B
\* pending the counter ends one below what it was before the deposit.
C10_RoundTripReturnsAllPending ==
  last.op = "deposit_pending_a" =>
    LET w == WithdrawNow
        p == last.pair
        had_a == prev.pending_a[p][last.caller]
        had_b == prev.pending_b[p][last.caller]
    IN  /\ w.err = ""
        /\ w.out = << [to |-> last.caller, token |-> pair_token_a[p],
                       amount |-> had_a + last.arg.a] >>
        /\ SamePool(w.st, prev, p)
        /\ w.st.pending_a[p][last.caller] = 0
        /\ had_a = 0 => w.st = prev
        /\ (had_a > 0 /\ had_b > 0) =>
             w.st.pair_pending_user_count[p] = prev.pair_pending_user_count[p]
        /\ (had_a > 0 /\ had_b = 0) =>
             w.st.pair_pending_user_count[p] = prev.pair_pending_user_count[p] - 1

\* C10 witness: an account with A already pending and no B pending has
\* deposited more A; its withdraw_pending_a now pays out more than the deposit
\* and takes the account off the counter.
C10_Witness ==
  /\ last.op = "deposit_pending_a"
  /\ prev.pending_a[last.pair][last.caller] > 0
  /\ prev.pending_b[last.pair][last.caller] = 0
  /\ WithdrawNow.err = ""
  /\ WithdrawNow.out[1].amount > last.arg.a
  /\ WithdrawNow.st.pair_pending_user_count[last.pair] < prev.pair_pending_user_count[last.pair]

\* pair p exists, is active and has no reserves
EmptyPool(p) ==
  /\ p \in registered_pair_ids
  /\ pair_is_active[p]
  /\ pair_reserve_a[p] = 0 /\ pair_reserve_b[p] = 0

\* amounts offered to an empty pool, on both sides of the boundary
FirstOffers == { <<1, 1>>, <<1000, 1000>>, <<1000, 1002>>, <<500, 2004>>, <<1001, 1001>>,
                 <<1001, 1002>>, <<2000, 4000>> }

\* the outcome of a first deposit of a and b by caller, given as the call c:
\* rejected if floor(sqrt(a * b)) <= 1000, i.e. a * b < 1001^2, and otherwise
\* accepted with floor(sqrt(a * b)) - 1000 > 0 shares credited to the caller
FirstDepositOutcome(c, p, caller, a, b) ==
  IF a * b < 1001 * 1001
  THEN c.err = "Initial liquidity too small"
  ELSE /\ c.err = ""
       /\ c.ret > 0
       /\ (c.ret + 1000) * (c.ret + 1000) <= a * b
       /\ a * b < (c.ret + 1001) * (c.ret + 1001)
       /\ c.st.lp_shares[p][caller] = c.ret
       /\ c.st.total_lp_shares[p] = c.ret

\* caller's pending balances of pair p after depositing a of token A and b of
\* token B on the current storage
Deposited(p, caller, a, b) ==
  CHOOSE t \in
    { deposit_pending_b(d, caller, p, [token |-> pair_token_b[p], amount |-> b]).st :
        d \in { deposit_pending_a(St, caller, p, [token |-> pair_token_a[p], amount |-> a]).st } } :
    TRUE

\* C11: on an empty pool a mint of (a, b), and a finalize_liquidity of pending
\* balances (a, b), fails with "Initial liquidity too small" whenever
\* floor(sqrt(a * b)) <= 1000, in particular for a = b = 1000, and otherwise
\* succeeds with floor(sqrt(a * b)) - 1000 > 0 shares.
C11_FirstLiquidityBoundary ==
  \A p \in PairIds : EmptyPool(p) =>
    \A o \in FirstOffers : \A caller \in Accounts :
      \A d \in { Deposited(p, caller, o[1], o[2]) } :
        /\ \A c \in { mint(St, caller, p, 0, MintValue(p, o[1], o[2])) } :
             FirstDepositOutcome(c, p, caller, o[1], o[2])
        /\ \A c \in { finalize_liquidity(d, caller, p, 0) } :
             FirstDepositOutcome(c, p, caller, d.pending_a[p][caller], d.pending_b[p][caller])

\* C11 witness: a pool emptied by remove_liquidity, on which a mint of
\* (1000, 1000) is rejected and a mint of (1001, 1001) yields one share.
C11_Witness ==
  /\ last.op = "remove_liquidity"
  /\ EmptyPool(last.pair)
  /\ mint(St, "u2", last.pair, 0, MintValue(last.pair, 1000, 1000)).err
       = "Initial liquidity too small"
  /\ mint(St, "u2", last.pair, 0, MintValue(last.pair, 1001, 1001)).ret = 1
  /\ finalize_liquidity(Deposited(last.pair, "u2", 1000, 1000), "u2", last.pair, 0).err
       = "Initial liquidity too small"

\* the scenario's two calls on the current storage: u1 mints (100000, 100000),
\* then u2 swaps 10000 of token A with min_output 0
ScenarioMint(p) == mint(St, "u1", p, 0, MintValue(p, 100000, 100000))
\* the scenario's swap on the storage t the mint left
ScenarioSwapOn(t, p) ==
  swap_a_to_b(t, "u2", p, 0, [token |-> pair_token_a[p], amount |-> 10000])
ScenarioSwap(p) ==
  CHOOSE w \in { ScenarioSwapOn(t, p) : t \in { ScenarioMint(p).st } } : TRUE

\* C12: on an empty pool with fee 1%, a mint of (100000, 100000) yields 99000
\* shares and reserves (100000, 100000); a following swap A to B of 10000 with
\* min_output 0 has raw output 9090, fee 90, pays the caller 9000 and leaves
\* reserves (110000, 90910).
C12_Scenario ==
  \A p \in PairIds : (EmptyPool(p) /\ pair_fee_percent[p] = 1) =>
    \A m \in { ScenarioMint(p) } : \A w \in { ScenarioSwapOn(m.st, p) } :
        /\ m.err = "" /\ m.ret = 99000 /\ m.out = <<>>
        /\ m.st.lp_shares[p]["u1"] = 99000 /\ m.st.total_lp_shares[p] = 99000
        /\ m.st.pair_reserve_a[p] = 100000 /\ m.st.pair_reserve_b[p] = 100000
        /\ w.err = "" /\ w.raw = 9090 /\ w.fee = 90
        /\ w.out = << [to |-> "u2", token |-> pair_token_b[p], amount |-> 9000] >>
        /\ w.st.pair_reserve_a[p] = 110000 /\ w.st.pair_reserve_b[p] = 90910

\* C12 witness: a pair just created with fee 1%, on which the scenario's swap
\* pays 9000.
C12_Witness ==
  /\ last.op = "create_pair"
  /\ EmptyPool(last.pair) /\ pair_fee_percent[last.pair] = 1
  /\ ScenarioMint(last.pair).ret = 99000
  /\ ScenarioSwap(last.pair).out[1].amount = 9000


(***************************************************************************)
(* C13.  Two providers with equal shares and a fee accrued on side B.      *)
(***************************************************************************)

\* both providers of the pair hold the same positive number of shares, are
\* the only providers, and have nothing left to settle on side B
EvenSplit(s, p) ==
  /\ s.lp_list[p] = Accounts
  /\ \A u \in Accounts :
       /\ s.lp_shares[p][u] > 0
       /\ 2 * s.lp_shares[p][u] = s.total_lp_shares[p]
       /\ s.lp_entry_index_b[p][u] = s.fee_per_share_b[p]

\* what settle (claim_pending_fees_internal) transfers to addr in token B
SettleB(p, addr) ==
  LET out == claim_pending_fees_internal(Ctx(St), p, addr).out
      paid == { i \in DOMAIN out : out[i].token = pair_token_b[p] /\ out[i].to = addr }
  IN  IF paid = {} THEN 0 ELSE out[CHOOSE i \in paid : TRUE].amount

\* the last call was a swap into side B of an evenly split pool
FeeOnSideB ==
  /\ last.op = "swap_a_to_b"
  /\ EvenSplit(prev, last.pair)

MintIntoPool ==
  /\ last.op = "mint"
  /\ prev.pair_reserve_a[last.pair] > 0
  /\ prev.pair_reserve_b[last.pair] > 0

\* what the last mint sent back to its caller in the given token, beyond the
\* settlement of the caller's accrued fees
Refunded(token) ==
  LET settled == Len(SettlementTransfers(prev, last.pair, last.caller))
      sent == { i \in (settled + 1)..Len(last.out) :
                  last.out[i].token = token /\ last.out[i].to = last.caller }
  IN  IF sent = {} THEN 0 ELSE last.out[CHOOSE i \in sent : TRUE].amount

RefundedA == Refunded(pair_token_a[last.pair])

RefundedB == Refunded(pair_token_b[last.pair])

\* C14: a mint into a non-empty pool adds to each reserve the attached amount
\* less the refund of that side (used + refund = attached), refunds on at most
\* one side, sends nothing beyond fee settlement and refund, and the refund is
\* the excess of the over-supplied asset over floor(limiting amount * reserve
\* of the over-supplied side / reserve of the limiting side).
C14_UsedPlusRefundIsAttached ==
  MintIntoPool =>
    LET p == last.pair
        reserve_a == prev.pair_reserve_a[p]
        reserve_b == prev.pair_reserve_b[p]
        amount_a == last.arg.a
        amount_b == last.arg.b
        used_a == pair_reserve_a[p] - reserve_a
        used_b == pair_reserve_b[p] - reserve_b
        matching_b == (amount_a * reserve_b) \div reserve_a
        matching_a == (amount_b * reserve_a) \div reserve_b
    IN
    /\ used_a > 0 /\ used_b > 0
    /\ used_a + RefundedA = amount_a
    /\ used_b + RefundedB = amount_b
    /\ RefundedA = 0 \/ RefundedB = 0
    /\ Len(last.out) = Len(SettlementTransfers(prev, p, last.caller))
                         + (IF RefundedA > 0 THEN 1 ELSE 0) + (IF RefundedB > 0 THEN 1 ELSE 0)
    /\ IF matching_b <= amount_b
       THEN RefundedA = 0 /\ RefundedB = amount_b - matching_b
       ELSE RefundedB = 0 /\ RefundedA = amount_a - matching_a

\* a mint by a provider with fees to settle, into a pool moved off its
\* opening ratio by a swap, with an excess on side A
C14_Witness ==
  /\ MintIntoPool
  /\ RefundedA > 0
  /\ prev.pair_reserve_a[last.pair] # 2000
  /\ SettlementTransfers(prev, last.pair, last.caller) # <<>>


(***************************************************************************)
(* C15.  finalize_liquidity against mint on the same amounts.              *)
(***************************************************************************)

\* amounts deposited on top of the storage of an account that has nothing
\* pending, among them amounts too small to match or to open a pool
SmallOffers == { <<1, 1>>, <<1000, 1000>> }

\* the storages in which caller has both sides pending on pair p: the current
\* one if so; else, for "u1" with nothing pending on a pool just changed, the
\* current one after two small deposits
WithPending(p, caller) ==
  IF pending_a[p][caller] > 0 /\ pending_b[p][caller] > 0 THEN { St }
  ELSE IF /\ pending_a[p][caller] = 0 /\ pending_b[p][caller] = 0 /\ caller = "u1"
          /\ last.op \in {"mint", "finalize_liquidity", "remove_liquidity",
                          "swap_a_to_b", "swap_b_to_a"}
       THEN { Deposited(p, caller, o[1], o[2]) : o \in SmallOffers }
       ELSE {}

\* the refund transfers of a mint for the given unused amounts
RefundTransfers(s, p, caller, refund_a, refund_b) ==
  (IF refund_a > 0 THEN << [to |-> caller, token |-> s.pair_token_a[p], amount |-> refund_a] >>
                   ELSE <<>>)
  \o (IF refund_b > 0 THEN << [to |-> caller, token |-> s.pair_token_b[p], amount |-> refund_b] >>
                      ELSE <<>>)

\* finalize_liquidity and mint on storage s, with the caller's pending (a, b)
\* attached to the mint, agree under minimum m
AgreeOn(s, p, caller, m) ==
  LET a == s.pending_a[p][caller]
      b == s.pending_b[p][caller]
  IN
  \A f \in { finalize_liquidity(s, caller, p, m) } :
  \A g \in { mint(s, caller, p, m, MintValue(p, a, b)) } :
    LET used_a == g.st.pair_reserve_a[p] - s.pair_reserve_a[p]
        used_b == g.st.pair_reserve_b[p] - s.pair_reserve_b[p]
    IN
    /\ (f.err = "") <=> (g.err = "")
    /\ f.err = "" =>
         /\ f.ret = g.ret
         /\ g.st.pending_a = s.pending_a /\ g.st.pending_b = s.pending_b
         /\ g.st.pair_pending_user_count = s.pair_pending_user_count
         /\ [f.st EXCEPT !.pending_a = s.pending_a, !.pending_b = s.pending_b,
                         !.pair_pending_user_count = s.pair_pending_user_count] = g.st
         /\ f.st.pending_a[p][caller] = a - used_a
         /\ f.st.pending_b[p][caller] = b - used_b
         /\ g.out = f.out \o RefundTransfers(s, p, caller, a - used_a, b - used_b)

\* C15: on every reachable storage and for every account with positive
\* pending (a, b), finalize_liquidity and a mint with (a, b) attached and the
\* same minimum succeed or fail together; on success they mint the same
\* shares, add the same used amounts to the reserves and leave the same
\* storage but for the pending bookkeeping: mint sends the unused part back,
\* finalize_liquidity keeps it pending.
C15_FinalizeMatchesMint ==
  \A p \in PairIds : p \in registered_pair_ids =>
    \A caller \in Accounts : \A s \in WithPending(p, caller) :
      /\ AgreeOn(s, p, caller, 0)
      /\ AgreeOn(s, p, caller, finalize_liquidity(s, caller, p, 0).ret + 1)

\* a provider with fees to settle has both sides pending on a pool with
\* reserves, and matching leaves part of one side unused
C15_Witness ==
  \E p \in PairIds : \E caller \in Accounts :
    /\ p \in registered_pair_ids
    /\ pair_reserve_a[p] > 0
    /\ SettlementTransfers(St, p, caller) # <<>>
    /\ pending_a[p][caller] > 0 /\ pending_b[p][caller] > 0
    /\ LET f == finalize_liquidity(St, caller, p, 0) IN
       /\ f.err = ""
       /\ f.st.pending_a[p][caller] + f.st.pending_b[p][caller] > 0
       /\ finalize_liquidity(St, caller, p, f.ret + 1).err = "Slippage: shares below minimum"


(***************************************************************************)
(* C16.  delete_pair only removes a pair that holds nothing.               *)
(***************************************************************************)

\* nothing is held for anyone on pair p: no reserves, no shares of any
\* account or of the platform, no pending deposit of any account, no
\* unclaimed platform fees
HoldsNothing(s, p) ==
  /\ s.pair_reserve_a[p] = 0 /\ s.pair_reserve_b[p] = 0
  /\ s.lp_list[p] = {}
  /\ \A u \in Callers : s.lp_shares[p][u] = 0
  /\ s.total_lp_shares[p] = 0
  /\ s.owner_shares[p] = 0
  /\ s.pair_pending_user_count[p] = 0
  /\ \A u \in Callers : s.pending_a[p][u] = 0 /\ s.pending_b[p][u] = 0
  /\ s.owner_unclaimed_fees_a[p] = 0 /\ s.owner_unclaimed_fees_b[p] = 0

MayDelete(s, p, caller) == caller = get_pair_creator_or_owner(s, p) \/ caller = Owner

\* C16: on every reachable storage delete_pair succeeds, for the pair's
\* creator or the contract owner, exactly when the pair has zero reserves, no
\* LP and no share balance, zero owner shares, no account with a pending
\* deposit and zero unclaimed platform fees on both sides, and then
\* unregisters the pair; otherwise it fails and the storage, the pair's
\* registration included, is unchanged.  canDeletePair tells the same.
C16_DeleteOnlyWhenEmpty ==
  \A p \in PairIds : p \in registered_pair_ids =>
    /\ can_delete_pair(St, p) <=> HoldsNothing(St, p)
    /\ \A caller \in Callers :
         \A d \in { delete_pair(St, caller, p) } :
           /\ (d.err = "") <=> (MayDelete(St, p, caller) /\ HoldsNothing(St, p))
           /\ d.err = "" => (p \notin d.st.registered_pair_ids /\ d.out = <<>>)
           /\ d.err # "" => (d.st = St /\ p \in d.st.registered_pair_ids)

\* a pair that had liquidity and was emptied again has been deleted
C16_Witness ==
  /\ last.op = "delete_pair"
  /\ last.pair \notin registered_pair_ids
  /\ HoldsNothing(prev, last.pair)
  /\ ops >= 4


(***************************************************************************)
(* C17.  The minimum output of a swap.                                     *)
(***************************************************************************)

\* a swap of amount x by "u2" on storage s, A to B or B to A, under minimum m
SwapEither(s, p, a_in, x, m) ==
  IF a_in THEN swap_a_to_b(s, "u2", p, m, [token |-> s.pair_token_a[p], amount |-> x])
          ELSE swap_b_to_a(s, "u2", p, m, [token |-> s.pair_token_b[p], amount |-> x])

\* the calls that change a pool's reserves or shares: every pool a swap can
\* meet arises right after one of them
ChangesPool(op) == ChangesShares(op) \/ IsSwap(op)

\* the output and the fee of a swap of x into reserve_in, fee_percent percent
UserAmount(x, reserve_in, reserve_out, fee_percent) ==
  LET raw_output == swap_output(x, reserve_in, reserve_out)
  IN  raw_output - ((raw_output * fee_percent) \div 100)

\* C17: on every reachable storage, for a swap that clears the checks before
\* the slippage check and has user amount raw_output - fee: with min_output
\* one above the user amount it is rejected with "Slippage: output below
\* minimum", storage unchanged and nothing transferred; with min_output equal
\* to the user amount it is carried out and transfers exactly that; every
\* swap that was carried out transferred raw_output - fee >= min_output.
C17_SlippageGuard ==
  /\ IsSwap(last.op) =>
       /\ Len(last.out) = 1
       /\ last.out[1].amount = last.raw - last.fee
       /\ last.out[1].amount >= last.arg.m
  /\ \A p \in PairIds : (p \in registered_pair_ids /\ pair_reserve_a[p] > 0) =>
       \A a_in \in BOOLEAN : \A x \in SwapAmounts :
         LET reserve_in == IF a_in THEN pair_reserve_a[p] ELSE pair_reserve_b[p]
             reserve_out == IF a_in THEN pair_reserve_b[p] ELSE pair_reserve_a[p]
             raw_output == swap_output(x, reserve_in, reserve_out)
             user_amount == UserAmount(x, reserve_in, reserve_out, pair_fee_percent[p])
         IN
         (raw_output > 0 /\ raw_output < reserve_out /\ ChangesPool(last.op)) =>
           /\ \A v \in { SwapEither(St, p, a_in, x, user_amount + 1) } :
                /\ v.err = "Slippage: output below minimum"
                /\ v.st = St
                /\ v.out = <<>>
           /\ IsSwap(last.op) =>
                \A v \in { SwapEither(St, p, a_in, x, user_amount) } :
                  /\ v.err = ""
                  /\ v.raw = raw_output /\ v.raw - v.fee = user_amount
                  /\ v.out = << [to |-> "u2",
                                 token |-> IF a_in THEN pair_token_b[p] ELSE pair_token_a[p],
                                 amount |-> user_amount] >>

\* after a swap that took a fee, the next swap has a user amount below its
\* raw output and is rejected one unit above it
C17_Witness ==
  /\ IsSwap(last.op)
  /\ last.fee > 0
  /\ \E a_in \in BOOLEAN :
       LET w == SwapEither(St, last.pair, a_in, 500, 0) IN
       /\ w.err = "" /\ w.fee > 0
       /\ SwapEither(St, last.pair, a_in, 500, w.raw - w.fee + 1).err
            = "Slippage: output below minimum"
       /\ SwapEither(St, last.pair, a_in, 500, w.raw).err = "Slippage: output below minimum"


(***************************************************************************)
(* C18.  A deactivated pair.                                               *)
(***************************************************************************)

\* the current storage after the owner has deactivated pair p
Deactivated(p) == set_pair_active(St, Owner, p, FALSE).st

\* the call was rejected for the inactive pair and left storage d as it was
RejectedInactive(c, d) ==
  \A r \in { c } : r.err = "Pair is not active" /\ r.st = d /\ r.out = <<>>

\* the call, if it was carried out, left pair p inactive
StaysInactive(c, p) ==
  \A r \in { c } : r.err = "" => ~r.st.pair_is_active[p]

\* the last call created a pair or brought tokens into one: the storages on
\* which the calls that an inactive pair still accepts are tried
JustFunded ==
  last.op \in {"create_pair", "mint", "deposit_pending_a", "deposit_pending_b", "swap_a_to_b"}

\* C18: once the owner has set a pair's active flag to false, every swap
\* (either direction, token or KLV input), every mint and every
\* finalize_liquidity on the pair is rejected with "Pair is not active" and
\* changes nothing; no other call turns the flag back on, an account that is
\* not the owner cannot, and set_pair_active(true) by the owner restores the
\* storage in which they are accepted.
C18_InactivePairRejects ==
  \A p \in PairIds : p \in registered_pair_ids =>
    \A d \in { Deactivated(p) } :
      /\ ~d.pair_is_active[p]
      /\ RejectedInactive(swap_a_to_b(d, "u2", p, 0, [token |-> pair_token_a[p], amount |-> 500]), d)
      /\ RejectedInactive(swap_b_to_a(d, "u2", p, 0, [token |-> pair_token_b[p], amount |-> 500]), d)
      /\ RejectedInactive(swap_klv_to_b(d, "u2", p, 0, 500), d)
      /\ RejectedInactive(swap_klv_to_a(d, "u2", p, 0, 500), d)
      /\ \A caller \in Accounts :
           /\ RejectedInactive(mint(d, caller, p, 0, MintValue(p, 2000, 4000)), d)
           /\ RejectedInactive(finalize_liquidity(d, caller, p, 0), d)
      /\ JustFunded =>
           /\ StaysInactive(deposit_pending_a(d, "u1", p, [token |-> pair_token_a[p], amount |-> 2000]), p)
           /\ StaysInactive(deposit_pending_b(d, "u1", p, [token |-> pair_token_b[p], amount |-> 1500]), p)
           /\ StaysInactive(withdraw_pending_all(d, "u1", p), p)
           /\ StaysInactive(remove_liquidity(d, "u1", p, d.lp_shares[p]["u1"]), p)
           /\ StaysInactive(claim_lp_fees(d, "u1", p), p)
           /\ StaysInactive(owner_claim_fees(d, Owner, p), p)
           /\ StaysInactive(delete_pair(d, Owner, p), p)
           /\ StaysInactive(create_pair(d, "u1", "TKA", "TKB", FALSE, FALSE, 1), p)
      /\ set_pair_active(d, "u1", p, TRUE).err = "Endpoint can only be called by owner"
      /\ \A r \in { set_pair_active(d, Owner, p, TRUE) } :
           /\ r.err = ""
           /\ r.st.pair_is_active[p]
           /\ r.st = [d EXCEPT !.pair_is_active[p] = TRUE]
           /\ pair_is_active[p] => r.st = St

\* a pool on which a swap, a mint and a finalize_liquidity are accepted, and
\* all three are rejected once it is deactivated
C18_Witness ==
  \E p \in PairIds : \E caller \in Accounts :
    /\ p \in registered_pair_ids
    /\ swap_a_to_b(St, "u2", p, 0, [token |-> pair_token_a[p], amount |-> 500]).err = ""
    /\ mint(St, caller, p, 0, MintValue(p, 2000, 4000)).err = ""
    /\ finalize_liquidity(St, caller, p, 0).err = ""
    /\ swap_a_to_b(Deactivated(p), "u2", p, 0,
                   [token |-> pair_token_a[p], amount |-> 500]).err = "Pair is not active"
    /\ mint(Deactivated(p), caller, p, 0, MintValue(p, 2000, 4000)).err = "Pair is not active"
    /\ finalize_liquidity(Deactivated(p), caller, p, 0).err = "Pair is not active"


(***************************************************************************)
(* C19.  quote_swap foretells the swap.                                    *)
(***************************************************************************)

\* the quote, on the storage before the last swap, for its direction and input
QuoteBefore == quote_swap(prev, last.pair, SwapIn, last.op = "swap_a_to_b")

\* C19: for every swap that was carried out, the amount sent to the caller
\* is the first component, and the fee handed to distribute_fee the second
\* component, of quote_swap evaluated on the storage before the swap with the
\* same direction and input amount.
C19_QuoteMatchesSwap ==
  IsSwap(last.op) =>
    /\ Len(last.out) = 1
    /\ last.out[1].to = last.caller
    /\ QuoteBefore = << last.out[1].amount, last.fee >>

\* a swap with a non-zero fee on a pool whose reserves an earlier swap moved
C19_Witness ==
  /\ IsSwap(last.op)
  /\ last.fee > 0
  /\ QuoteBefore[2] = last.fee
  /\ prev.fee_per_share_a[last.pair] # <<>> \/ prev.fee_per_share_b[last.pair] # <<>>


(***************************************************************************)
(* C20.  quote_swap_reverse asks for enough.                               *)
(***************************************************************************)

\* desired outputs: the least, a middling one, half of the output reserve
DesiredOutputs(reserve_out) == { 1, 100, reserve_out \div 2 }

\* C20: whenever quote_swap_reverse returns a non-zero required input for a
\* desired output d on an active pair, a swap of exactly the required input
\* in the same storage and direction with min_output = d is carried out and
\* transfers at least d to the caller.
C20_ReverseQuoteSuffices ==
  \A p \in PairIds :
    (p \in registered_pair_ids /\ pair_is_active[p] /\ IsSwap(last.op)) =>
      \A a_in \in BOOLEAN :
        \A d \in DesiredOutputs(IF a_in THEN pair_reserve_b[p] ELSE pair_reserve_a[p]) :
          \A q \in { quote_swap_reverse(St, p, d, a_in) } :
            q[1] # 0 =>
              \A w \in { SwapEither(St, p, a_in, q[1], d) } :
                /\ w.err = ""
                /\ Len(w.out) = 1
                /\ w.out[1].to = "u2"
                /\ w.out[1].amount >= d

\* a pool moved by a swap on which the reverse quote for half of the output
\* reserve asks for more than the input reserve, and the swap delivers
C20_Witness ==
  /\ IsSwap(last.op)
  /\ pair_is_active[last.pair]
  /\ LET d == pair_reserve_b[last.pair] \div 2
         q == quote_swap_reverse(St, last.pair, d, TRUE)
     IN  /\ q[1] > pair_reserve_a[last.pair]
         /\ SwapEither(St, last.pair, TRUE, q[1], d).err = ""
         /\ SwapEither(St, last.pair, TRUE, q[1], d).out[1].amount >= d


(***************************************************************************)
(* C21.  What a swap changes.                                              *)
(***************************************************************************)

\* the raw output of the last swap by the formula, from the storage before it
SwapRawOutput == (SwapIn * SwapReserveOut) \div (SwapReserveIn + SwapIn)

\* the fee carved out of it
SwapFee == (SwapRawOutput * prev.pair_fee_percent[last.pair]) \div 100

\* the storage before the last swap with the reserves moved as C21 says
SwapMovedReserves ==
  IF last.op = "swap_a_to_b"
  THEN [prev EXCEPT !.pair_reserve_a[last.pair] = @ + SwapIn,
                    !.pair_reserve_b[last.pair] = @ - SwapRawOutput]
  ELSE [prev EXCEPT !.pair_reserve_b[last.pair] = @ + SwapIn,
                    !.pair_reserve_a[last.pair] = @ - SwapRawOutput]

\* C21: a swap of input x that was carried out changed the storage by exactly
\* reserve_in += x, reserve_out -= raw_output with raw_output =
\* floor(x * reserve_out / (reserve_in + x)), and by the distribution of
\* fee = floor(raw_output * fee_percent / 100) on the output side; the caller
\* received raw_output - fee in the output token and nothing else was sent;
\* share balances, the LP list, entry indices and pending balances are as
\* they were.
C21_SwapEffect ==
  IsSwap(last.op) =>
    /\ last.raw = SwapRawOutput
    /\ last.fee = SwapFee
    /\ St = distribute_fee(SwapMovedReserves, last.pair, SwapFee, last.op = "swap_b_to_a")
    /\ last.out = << [to |-> last.caller,
                      token |-> IF last.op = "swap_a_to_b" THEN pair_token_b[last.pair]
                                                           ELSE pair_token_a[last.pair],
                      amount |-> SwapRawOutput - SwapFee] >>
    /\ lp_shares = prev.lp_shares /\ total_lp_shares = prev.total_lp_shares
    /\ lp_list = prev.lp_list /\ owner_shares = prev.owner_shares
    /\ lp_entry_index_a = prev.lp_entry_index_a /\ lp_entry_index_b = prev.lp_entry_index_b
    /\ pending_a = prev.pending_a /\ pending_b = prev.pending_b
    /\ pair_pending_user_count = prev.pair_pending_user_count
    /\ IF last.op = "swap_a_to_b"
       THEN /\ fee_per_share_a = prev.fee_per_share_a
            /\ owner_unclaimed_fees_a = prev.owner_unclaimed_fees_a
       ELSE /\ fee_per_share_b = prev.fee_per_share_b
            /\ owner_unclaimed_fees_b = prev.owner_unclaimed_fees_b

\* a swap B to A with a fee, on a pool with a provider and a pending deposit
C21_Witness ==
  /\ last.op = "swap_b_to_a"
  /\ last.fee > 0
  /\ pair_reserve_a[last.pair] = prev.pair_reserve_a[last.pair] - last.raw
  /\ pair_pending_user_count[last.pair] > 0
  /\ owner_unclaimed_fees_a[last.pair] > prev.owner_unclaimed_fees_a[last.pair]


(***************************************************************************)
(* C22.  A swap never exhausts the output reserve.                         *)
(***************************************************************************)

\* inputs from the least to a multiple of any reserve the model reaches
ProbeInputs == { 1, 3, 500, 50000 }

\* C22: on every reachable pool with both reserves above zero and for every
\* input above zero, the raw output is strictly below the output reserve; a
\* swap is rejected with "Invalid output" exactly when its raw output is zero;
\* and after every swap that was carried out both reserves are above zero.
C22_OutputBelowReserve ==
  /\ IsSwap(last.op) =>
       /\ pair_reserve_a[last.pair] > 0 /\ pair_reserve_b[last.pair] > 0
       /\ last.raw < SwapReserveOut
  /\ \A p \in PairIds :
       (p \in registered_pair_ids /\ pair_reserve_a[p] > 0 /\ pair_reserve_b[p] > 0) =>
         \A a_in \in BOOLEAN : \A x \in ProbeInputs :
           LET reserve_in == IF a_in THEN pair_reserve_a[p] ELSE pair_reserve_b[p]
               reserve_out == IF a_in THEN pair_reserve_b[p] ELSE pair_reserve_a[p]
               raw_output == swap_output(x, reserve_in, reserve_out)
           IN
           /\ raw_output < reserve_out
           /\ (raw_output = 0 \/ (x = 50000 /\ IsSwap(last.op))) =>
                \A w \in { SwapEither(St, p, a_in, x, 0) } :
                  /\ (w.err = "Invalid output") <=> (raw_output = 0)
                  /\ w.err = "" =>
                       /\ w.st.pair_reserve_a[p] > 0 /\ w.st.pair_reserve_b[p] > 0
                       /\ w.raw = raw_output

\* after a swap, an input of 1 yields nothing and is rejected while an input
\* of 50000 takes most of the output reserve and leaves some
C22_Witness ==
  /\ IsSwap(last.op)
  /\ \E a_in \in BOOLEAN :
       LET reserve_out == IF a_in THEN pair_reserve_b[last.pair] ELSE pair_reserve_a[last.pair]
           w == SwapEither(St, last.pair, a_in, 50000, 0)
       IN  /\ SwapEither(St, last.pair, a_in, 1, 0).err = "Invalid output"
           /\ w.err = ""
           /\ 10 * w.raw > 9 * reserve_out
           /\ w.raw < reserve_out


(***************************************************************************)
(* C23: position of the checks relative to settlement and writes           *)
(***************************************************************************)
\* a rejected call was rejected by a check evaluated before any write
OnTime(c) == \A r \in { c } : r.err # "" => ~r.late

\* settling addr writes storage: addr is a provider whose entry index is
\* behind the index of the pair on some side
SettlementWrites(s, p, addr) ==
  /\ addr \in s.lp_list[p] /\ s.lp_shares[p][addr] > 0
  /\ (s.lp_entry_index_a[p][addr] # s.fee_per_share_a[p]
      \/ s.lp_entry_index_b[p][addr] # s.fee_per_share_b[p])

\* on the storage left by a pool-changing call: calls of the endpoints that
\* settle the caller's fees, with inputs that fail their checks, and the
\* smallest burn of a provider
SettlingCallsOnTime(p, caller) ==
  ChangesPool(last.op) =>
  /\ OnTime(mint(St, caller, p, TooMuch, MintValue(p, 2000, 4000)))
  /\ OnTime(mint(St, caller, p, 0, MintValue(p, 2000, 0)))
  /\ OnTime(finalize_liquidity(St, caller, p, TooMuch))
  /\ OnTime(remove_liquidity(St, caller, p, 0))
  /\ OnTime(remove_liquidity(St, caller, p, lp_shares[p][caller] + 1))
  /\ OnTime(claim_lp_fees(St, caller, p))
  /\ lp_shares[p][caller] > 0 =>
       \A r \in { remove_liquidity(St, caller, p, 1) } :
         r.err = "" /\ (r.late <=> SettlementWrites(St, p, caller))

\* C23 as stated: in every call every check is evaluated before the fee
\* settlement and before any other write or transfer, remove_liquidity's
\* "Withdrawal too small" check included.
C23_AllChecksBeforeSettlement ==
  /\ ~last.late
  /\ \A p \in PairIds : \A caller \in Accounts : SettlingCallsOnTime(p, caller)

\* C23: no call is rejected after it settled fees, wrote storage or sent a
\* transfer; the only check evaluated after the settlement is the "Withdrawal
\* too small" check of remove_liquidity, which follows the settlement whenever
\* the settlement moved the caller's entry index and which no provider's burn
\* fails.
C23_NoRejectionAfterSettlement ==
  /\ last.late <=> (last.op = "remove_liquidity"
                    /\ SettlementWrites(prev, last.pair, last.caller))
  /\ \A p \in PairIds : \A caller \in Accounts :
       p \in registered_pair_ids => SettlingCallsOnTime(p, caller)

\* a burn paid the caller's fees before its last check was evaluated, and in
\* the storage it left a provider with fees owed is refused a mint
C23_Witness ==
  /\ last.op = "remove_liquidity" /\ last.late /\ Len(last.out) > 2
  /\ \E caller \in Accounts :
       /\ SettlementTransfers(St, last.pair, caller) # <<>>
       /\ mint(St, caller, last.pair, TooMuch, MintValue(last.pair, 2000, 4000)).err
            = "Slippage: shares below minimum"


(***************************************************************************)
(* distribute_fee as a function of the fee, the side and the share         *)
(* counters it reads.  owner_shares is positive on a pair that the earlier *)
(* contract version (lib_current_backup.rs 258, 283) initialised and this  *)
(* version took over by upgrade; no endpoint of this version raises it.    *)
(* SpecFee starts from such storages and applies distribute_fee alone.     *)
(***************************************************************************)
MaxFeeRounds == 2
OwnerShareChoices == { 0, 1, 1000, 3000 }
LpShareChoices == { 0, 1, 1828, 3000 }
FeeAmounts == { 0, 1, 9, 10, 88, 1000 }
FeePair == CHOOSE p \in PairIds : TRUE

\* a pair with the given share counters, all provider shares held by u1
FeeStorage(owner_sh, lp_sh) ==
  LET s == create_pair(InitStorage, "u1", "TKA", "TKB", FALSE, FALSE, 1).st IN
  [s EXCEPT !.owner_shares[FeePair] = owner_sh,
            !.total_lp_shares[FeePair] = lp_sh,
            !.lp_shares[FeePair]["u1"] = lp_sh,
            !.lp_list[FeePair] = IF lp_sh > 0 THEN {"u1"} ELSE {},
            !.pair_reserve_a[FeePair] = 2 * (owner_sh + lp_sh),
            !.pair_reserve_b[FeePair] = 3 * (owner_sh + lp_sh)]

StorageIs(s) ==
  /\ next_pair_id = s.next_pair_id
  /\ registered_pair_ids = s.registered_pair_ids
  /\ pair_creator = s.pair_creator
  /\ pair_token_a = s.pair_token_a
  /\ pair_token_b = s.pair_token_b
  /\ pair_token_a_is_klv = s.pair_token_a_is_klv
  /\ pair_token_b_is_klv = s.pair_token_b_is_klv
  /\ pair_reserve_a = s.pair_reserve_a
  /\ pair_reserve_b = s.pair_reserve_b
  /\ pair_fee_percent = s.pair_fee_percent
  /\ pair_is_active = s.pair_is_active
  /\ owner_shares = s.owner_shares
  /\ total_lp_shares = s.total_lp_shares
  /\ lp_list = s.lp_list
  /\ lp_shares = s.lp_shares
  /\ owner_unclaimed_fees_a = s.owner_unclaimed_fees_a
  /\ owner_unclaimed_fees_b = s.owner_unclaimed_fees_b
  /\ fee_per_share_a = s.fee_per_share_a
  /\ fee_per_share_b = s.fee_per_share_b
  /\ lp_entry_index_a = s.lp_entry_index_a
  /\ lp_entry_index_b = s.lp_entry_index_b
  /\ pending_a = s.pending_a
  /\ pending_b = s.pending_b
  /\ pair_pending_user_count = s.pair_pending_user_count

FeeInit ==
  \E owner_sh \in OwnerShareChoices, lp_sh \in LpShareChoices :
    /\ StorageIs(FeeStorage(owner_sh, lp_sh))
    /\ last = [op |-> "init", pair |-> 0, caller |-> NoAddr, arg |-> NoArg,
               out |-> <<>>, ret |-> 0, raw |-> 0, fee |-> 0, late |-> FALSE]
    /\ prev = FeeStorage(owner_sh, lp_sh)
    /\ ops = 0
    /\ held_a = [p \in PairIds |-> 0]
    /\ held_b = [p \in PairIds |-> 0]

\* one call of distribute_fee(pair, fee, is_token_a) on the current storage
DistributeFee ==
  \E fee \in FeeAmounts, is_token_a \in BOOLEAN :
    /\ ops < MaxFeeRounds
    /\ Commit(distribute_fee(St, FeePair, fee, is_token_a))
    /\ last' = [op |-> "distribute_fee", pair |-> FeePair, caller |-> NoAddr,
                arg |-> [a |-> fee, b |-> IF is_token_a THEN 1 ELSE 0, m |-> 0],
                out |-> <<>>, ret |-> 0, raw |-> 0, fee |-> fee, late |-> FALSE]
    /\ prev' = St
    /\ ops' = ops + 1
    /\ UNCHANGED <<held_a, held_b>>

FeeNext == DistributeFee

SpecFee == FeeInit /\ [][FeeNext]_vars

(***************************************************************************)
(* C24: the two portions of a fee                                          *)
(***************************************************************************)
Distributed == last.op = "distribute_fee"
FeeOnA == last.arg.b = 1
\* what the call added to the platform's unclaimed fees on the fee's side
OwnerCredit ==
  IF FeeOnA
  THEN owner_unclaimed_fees_a[last.pair] - prev.owner_unclaimed_fees_a[last.pair]
  ELSE owner_unclaimed_fees_b[last.pair] - prev.owner_unclaimed_fees_b[last.pair]
\* what the call added to the index of the fee's side
IndexRise ==
  IF FeeOnA
  THEN BigSub(fee_per_share_a[last.pair], prev.fee_per_share_a[last.pair])
  ELSE BigSub(fee_per_share_b[last.pair], prev.fee_per_share_b[last.pair])
TotalBefore == prev.owner_shares[last.pair] + prev.total_lp_shares[last.pair]

\* C24: a call of distribute_fee with fee > 0 and at least one share
\* outstanding credits the platform an owner portion of at most the fee and
\* indexes the rest, fee - owner portion, as the LP portion over the provider
\* shares, so the two portions sum to the fee exactly; without provider
\* shares the owner portion is the whole fee; with fee = 0 or no share
\* outstanding the call changes nothing.
C24_PortionsSumToFee ==
  Distributed =>
    /\ (last.fee > 0 /\ TotalBefore > 0) =>
         /\ OwnerCredit >= 0 /\ OwnerCredit <= last.fee
         /\ IF prev.total_lp_shares[last.pair] > 0
            THEN /\ OwnerCredit < last.fee
                 /\ IndexRise = BigDiv(BigMul(ToBig(last.fee - OwnerCredit), PRECISION),
                                       ToBig(prev.total_lp_shares[last.pair]))
            ELSE OwnerCredit = last.fee /\ IndexRise = <<>>
    /\ (last.fee = 0 \/ TotalBefore = 0) => St = prev

\* a fee shared by the platform, which holds a quarter of the shares, and the
\* providers
C24_Witness ==
  /\ Distributed /\ last.fee = 88
  /\ prev.owner_shares[last.pair] = 1000 /\ prev.total_lp_shares[last.pair] = 3000
  /\ OwnerCredit > 8 /\ OwnerCredit < 88 /\ IndexRise # <<>>


(***************************************************************************)
(* C25: the amounts distribute_fee credits                                 *)
(***************************************************************************)
\* floor(owner_shares * PRECISION / total_shares), the owner's part of the
\* pool scaled by PRECISION
OwnerPct(owner_sh, total_shares) ==
  BigDiv(BigMulNat(PRECISION, owner_sh), ToBig(total_shares))

\* floor(fee * (9 * owner_pct + PRECISION) / (10 * PRECISION))
OwnerPortion(fee, owner_sh, total_shares) ==
  ToNat(BigDiv(BigMulNat(BigAdd(BigMulNat(OwnerPct(owner_sh, total_shares), 9), PRECISION), fee),
               BigMulNat(PRECISION, 10)))

\* the storage before the call with the two fields of the fee's side replaced
WithFeeSide(owner_fees, index) ==
  IF FeeOnA
  THEN [prev EXCEPT !.owner_unclaimed_fees_a[last.pair] = owner_fees,
                    !.fee_per_share_a[last.pair] = index]
  ELSE [prev EXCEPT !.owner_unclaimed_fees_b[last.pair] = owner_fees,
                    !.fee_per_share_b[last.pair] = index]

\* C25: a call of distribute_fee with fee > 0 and a share outstanding adds
\* floor(fee * (9 * owner_pct + PRECISION) / (10 * PRECISION)) to the
\* platform's unclaimed fees of the fee's side, with owner_pct =
\* floor(owner_shares * PRECISION / total_shares); that is floor(fee / 10)
\* when owner_shares = 0; it raises fee_per_share of that side by
\* floor((fee - owner_portion) * PRECISION / total_lp_shares) when
\* total_lp_shares > 0 and leaves it alone otherwise; nothing else changes,
\* the other side's accumulator and index included.
C25_CreditedAmounts ==
  (Distributed /\ last.fee > 0 /\ TotalBefore > 0) =>
    LET owner_sh == prev.owner_shares[last.pair]
        lp_sh == prev.total_lp_shares[last.pair]
        owner_portion == OwnerPortion(last.fee, owner_sh, TotalBefore)
        rise == IF lp_sh > 0
                THEN BigDiv(BigMulNat(PRECISION, last.fee - owner_portion), ToBig(lp_sh))
                ELSE <<>>
    IN
    /\ OwnerCredit = owner_portion
    /\ owner_sh = 0 => OwnerCredit = last.fee \div 10
    /\ IndexRise = rise
    /\ St = WithFeeSide(
              (IF FeeOnA THEN prev.owner_unclaimed_fees_a[last.pair]
                         ELSE prev.owner_unclaimed_fees_b[last.pair]) + owner_portion,
              BigAdd(IF FeeOnA THEN prev.fee_per_share_a[last.pair]
                               ELSE prev.fee_per_share_b[last.pair], rise))
    /\ FeeOnA => /\ owner_unclaimed_fees_b = prev.owner_unclaimed_fees_b
                 /\ fee_per_share_b = prev.fee_per_share_b
    /\ ~FeeOnA => /\ owner_unclaimed_fees_a = prev.owner_unclaimed_fees_a
                  /\ fee_per_share_a = prev.fee_per_share_a

\* a fee of 1000 on side B with the platform holding 1000 of 4000 shares:
\* owner_pct is a quarter, the platform is credited 325 and the index of side
\* B rises by 675 * PRECISION / 3000 while side A already holds fees
C25_Witness ==
  /\ Distributed /\ ~FeeOnA /\ last.fee = 1000
  /\ prev.owner_shares[last.pair] = 1000 /\ prev.total_lp_shares[last.pair] = 3000
  /\ OwnerCredit = 325
  /\ IndexRise = BigMulNat(ToBig(100000000), 2250)
  /\ owner_unclaimed_fees_a[last.pair] > 0 /\ fee_per_share_a[last.pair] # <<>>


(***************************************************************************)
(* C26: settlement                                                         *)
(***************************************************************************)
\* floor((fee_per_share - entry_index) * shares / PRECISION)
OwedOnSide(fee_per_share, entry_index, shares) ==
  IF BigLt(entry_index, fee_per_share)
  THEN ToNat(BigDiv(BigMulNat(BigSub(fee_per_share, entry_index), shares), PRECISION))
  ELSE 0

\* the transfers of a settlement paying owed_a and owed_b
PaidOut(s, p, addr, owed_a, owed_b) ==
  (IF owed_a > 0 THEN << [to |-> addr, token |-> s.pair_token_a[p], amount |-> owed_a] >>
                 ELSE <<>>)
  \o (IF owed_b > 0 THEN << [to |-> addr, token |-> s.pair_token_b[p], amount |-> owed_b] >>
                    ELSE <<>>)

\* C26: an accepted claim_lp_fees pays the caller, per side,
\* floor((fee_per_share - entry_index) * shares / PRECISION) and sets both
\* entry indices to the current indices, changing nothing else; settling the
\* same account again right away pays nothing and changes no state; settling
\* an account that is no provider of the pair pays nothing and changes no
\* state.
C26_SettleOnceThenNothing ==
  /\ last.op = "claim_lp_fees" =>
       LET p == last.pair
           addr == last.caller
           shares == prev.lp_shares[p][addr]
       IN
       /\ last.out = PaidOut(prev, p, addr,
                       OwedOnSide(prev.fee_per_share_a[p], prev.lp_entry_index_a[p][addr], shares),
                       OwedOnSide(prev.fee_per_share_b[p], prev.lp_entry_index_b[p][addr], shares))
       /\ St = [prev EXCEPT !.lp_entry_index_a[p][addr] = prev.fee_per_share_a[p],
                            !.lp_entry_index_b[p][addr] = prev.fee_per_share_b[p]]
       /\ \A again \in { claim_pending_fees_internal(Ctx(St), p, addr) } :
            again.out = <<>> /\ again.st = St
       /\ \A again \in { claim_lp_fees(St, addr, p) } :
            again.err = "" /\ again.out = <<>> /\ again.st = St
  /\ ChangesPool(last.op) =>
       \A p \in PairIds : \A addr \in Callers :
         /\ addr \notin lp_list[p] =>
              claim_pending_fees_internal(Ctx(St), p, addr) = Ctx(St)
         /\ addr \in lp_list[p] =>
              \A once \in { claim_pending_fees_internal(Ctx(St), p, addr) } :
                \A again \in { claim_pending_fees_internal(Ctx(once.st), p, addr) } :
                  again.out = <<>> /\ again.st = once.st

\* a provider claimed fees on both sides while another account of the pair
\* holds no shares
C26_Witness ==
  /\ last.op = "claim_lp_fees" /\ Len(last.out) = 2
  /\ last.out[1].amount > 0 /\ last.out[2].amount > 0
  /\ \E addr \in Accounts : addr \notin lp_list[last.pair]


(***************************************************************************)
(* C27: the index only grows, and only by swaps                            *)
(***************************************************************************)
\* pair p was registered before the last call and still is
PairKept(p) == p \in prev.registered_pair_ids /\ p \in registered_pair_ids

\* C27: across every call that keeps a pair, fee_per_share of either side of
\* the pair is at least what it was before the call, and it is what it was
\* unless the call is a swap on that pair.
C27_IndexNeverDecreases ==
  \A p \in PairIds : PairKept(p) =>
    /\ BigLe(prev.fee_per_share_a[p], fee_per_share_a[p])
    /\ BigLe(prev.fee_per_share_b[p], fee_per_share_b[p])
    /\ ~(IsSwap(last.op) /\ last.pair = p) =>
         /\ fee_per_share_a[p] = prev.fee_per_share_a[p]
         /\ fee_per_share_b[p] = prev.fee_per_share_b[p]

\* a swap raised an index that earlier swaps had already raised
C27_Witness ==
  /\ IsSwap(last.op) /\ PairKept(last.pair)
  /\ \/ (prev.fee_per_share_a[last.pair] # <<>>
         /\ BigLt(prev.fee_per_share_a[last.pair], fee_per_share_a[last.pair]))
     \/ (prev.fee_per_share_b[last.pair] # <<>>
         /\ BigLt(prev.fee_per_share_b[last.pair], fee_per_share_b[last.pair]))


(***************************************************************************)
(* C28: the payout of a burn                                               *)
(***************************************************************************)
\* floor(s * reserve / total)
Payout(shares, reserve, total) == (shares * reserve) \div total

\* the total of the pair's shares in storage s
TotalShares(s, p) == s.owner_shares[p] + s.total_lp_shares[p]

\* C28: an accepted remove_liquidity of s shares, 0 < s <= the caller's
\* balance, pays floor(s * Ra / T) and floor(s * Rb / T) after the caller's
\* settled fees, lowers the reserves by exactly these amounts and
\* total_lp_shares and the caller's balance by s; a burn of more than the
\* balance is rejected with "Insufficient LP shares"; a burn within the
\* balance is rejected with "Withdrawal too small" exactly when both payouts
\* are zero.
C28_BurnPaysProportionally ==
  /\ last.op = "remove_liquidity" =>
       LET p == last.pair
           caller == last.caller
           s == last.arg.a
           pay_a == Payout(s, prev.pair_reserve_a[p], TotalShares(prev, p))
           pay_b == Payout(s, prev.pair_reserve_b[p], TotalShares(prev, p))
       IN
       /\ s > 0 /\ s <= prev.lp_shares[p][caller]
       /\ pay_a > 0 \/ pay_b > 0
       /\ last.out = SettlementTransfers(prev, p, caller) \o PaidOut(prev, p, caller, pay_a, pay_b)
       /\ pair_reserve_a[p] = prev.pair_reserve_a[p] - pay_a
       /\ pair_reserve_b[p] = prev.pair_reserve_b[p] - pay_b
       /\ total_lp_shares[p] = prev.total_lp_shares[p] - s
       /\ lp_shares[p][caller] = prev.lp_shares[p][caller] - s
       /\ \A other \in Callers \ {caller} : lp_shares[p][other] = prev.lp_shares[p][other]
       /\ owner_shares = prev.owner_shares
       /\ fee_per_share_a = prev.fee_per_share_a /\ fee_per_share_b = prev.fee_per_share_b
       /\ owner_unclaimed_fees_a = prev.owner_unclaimed_fees_a
       /\ owner_unclaimed_fees_b = prev.owner_unclaimed_fees_b
       /\ pending_a = prev.pending_a /\ pending_b = prev.pending_b
  /\ ChangesPool(last.op) =>
       \A p \in PairIds : p \in registered_pair_ids =>
         \A caller \in Accounts :
           /\ remove_liquidity(St, caller, p, lp_shares[p][caller] + 1).err
                = "Insufficient LP shares"
           /\ lp_shares[p][caller] > 0 =>
                \A s \in { 1, lp_shares[p][caller] } :
                  remove_liquidity(St, caller, p, s).err
                    = IF Payout(s, pair_reserve_a[p], TotalShares(St, p)) = 0
                         /\ Payout(s, pair_reserve_b[p], TotalShares(St, p)) = 0
                      THEN "Withdrawal too small" ELSE ""

\* a provider burned half of its shares while another provider holds shares,
\* was paid on both sides after its fees, and the payouts were rounded down
C28_Witness ==
  /\ last.op = "remove_liquidity"
  /\ lp_shares[last.pair][last.caller] > 0
  /\ total_lp_shares[last.pair] > lp_shares[last.pair][last.caller]
  /\ Len(last.out) = 3
  /\ (last.arg.a * prev.pair_reserve_a[last.pair]) % TotalShares(prev, last.pair) # 0
  /\ remove_liquidity(St, last.caller, last.pair, lp_shares[last.pair][last.caller] + 1).err
       = "Insufficient LP shares"


(***************************************************************************)
(* C29: membership                                                         *)
(***************************************************************************)
\* the account has no entry left for pair p: no membership, no balance, no
\* entry index on either side
NoEntries(p, addr) ==
  /\ addr \notin lp_list[p]
  /\ lp_shares[p][addr] = 0
  /\ lp_entry_index_a[p][addr] = <<>>
  /\ lp_entry_index_b[p][addr] = <<>>

\* C29: in every reachable state an account is in the LP list of a pair
\* exactly when its share balance is positive, an account outside the list
\* has neither a balance nor entry indices stored, and a burn that takes the
\* caller's balance to zero removes it from the list and clears its balance
\* and both entry indices in the same call.
C29_MembersHoldShares ==
  /\ \A p \in PairIds : \A addr \in Callers :
       /\ addr \in lp_list[p] <=> lp_shares[p][addr] > 0
       /\ addr \notin lp_list[p] => NoEntries(p, addr)
  /\ (last.op = "remove_liquidity"
      /\ last.arg.a = prev.lp_shares[last.pair][last.caller]) =>
       /\ last.caller \in prev.lp_list[last.pair]
       /\ NoEntries(last.pair, last.caller)
       /\ lp_list[last.pair] = prev.lp_list[last.pair] \ {last.caller}

\* a provider whose entry indices were positive burned all of its shares
\* while another provider stays in the list
C29_Witness ==
  /\ last.op = "remove_liquidity"
  /\ last.arg.a = prev.lp_shares[last.pair][last.caller]
  /\ \/ prev.lp_entry_index_a[last.pair][last.caller] # <<>>
     \/ prev.lp_entry_index_b[last.pair][last.caller] # <<>>
  /\ lp_list[last.pair] # {}
  /\ NoEntries(last.pair, last.caller)


(***************************************************************************)
(* C30: shares of a deposit into a pool with reserves                      *)
(***************************************************************************)
\* the amounts of an offer (a, b) that match the ratio of the reserves of s
Matched(s, p, a, b) ==
  LET reserve_a == s.pair_reserve_a[p]
      reserve_b == s.pair_reserve_b[p]
      optimal_b == (a * reserve_b) \div reserve_a
  IN  IF optimal_b <= b THEN <<a, optimal_b>> ELSE <<(b * reserve_a) \div reserve_b, b>>

\* min(floor(used_a * T / reserve_a), floor(used_b * T / reserve_b)) on s
SharesFor(s, p, used_a, used_b) ==
  LET from_a == (used_a * TotalShares(s, p)) \div s.pair_reserve_a[p]
      from_b == (used_b * TotalShares(s, p)) \div s.pair_reserve_b[p]
  IN  IF from_a < from_b THEN from_a ELSE from_b

HasReserves(s, p) ==
  p \in s.registered_pair_ids /\ s.pair_reserve_a[p] > 0 /\ s.pair_reserve_b[p] > 0

\* the outcome c of a mint or finalize_liquidity by caller offering (a, b)
\* with minimum m on storage s, zero_shares being the message for a deposit
\* that meets its minimum with zero shares
DepositOutcome(c, s, p, caller, a, b, m, zero_shares) ==
  LET used == Matched(s, p, a, b)
      n == SharesFor(s, p, used[1], used[2])
  IN
  IF used[1] = 0 \/ used[2] = 0
  THEN c.err \in {"Amounts too small", "Amounts too small to match"}
  ELSE IF n < m THEN c.err = "Slippage: shares below minimum" /\ Untouched(c)
  ELSE IF n = 0 THEN c.err = zero_shares /\ Untouched(c)
  ELSE /\ c.err = ""
       /\ c.ret = n
       /\ c.st.lp_shares[p][caller] = s.lp_shares[p][caller] + n
       /\ c.st.total_lp_shares[p] = s.total_lp_shares[p] + n

\* an offer of three units in the ratio nearest to the pool's
TinyOffer(p) == IF pair_reserve_a[p] <= pair_reserve_b[p] THEN <<1, 2>> ELSE <<2, 1>>

ProbeOffers(p) == { TinyOffer(p), <<1000, 1000>> }

\* the deposits probed on the current storage: mints by the last caller with
\* minimum 0 and one above the shares due, and finalize_liquidity of what
\* the caller has pending or, for u1 with nothing pending, of a tiny deposit
DepositsAnswer(p, zero_shares) ==
  /\ \A caller \in { last.caller } : \A o \in ProbeOffers(p) :
       \A m \in { 0, SharesFor(St, p, Matched(St, p, o[1], o[2])[1],
                               Matched(St, p, o[1], o[2])[2]) + 1 } :
         DepositOutcome(mint(St, caller, p, m, MintValue(p, o[1], o[2])),
                        St, p, caller, o[1], o[2], m, zero_shares)
  /\ \A caller \in Accounts :
       \A s \in (IF pending_a[p][caller] > 0 /\ pending_b[p][caller] > 0 THEN { St }
                 ELSE IF caller = "u1" /\ pending_a[p][caller] = 0 /\ pending_b[p][caller] = 0
                      THEN { Deposited(p, caller, TinyOffer(p)[1], TinyOffer(p)[2]) }
                      ELSE {}) :
         \A m \in { 0, 1 } :
           DepositOutcome(finalize_liquidity(s, caller, p, m), s, p, caller,
                          s.pending_a[p][caller], s.pending_b[p][caller], m, zero_shares)

\* the last call was a mint or finalize_liquidity into a pool with reserves,
\* and it credited the shares of the formula for the amounts it added
SharesOfLastDeposit ==
  (last.op \in {"mint", "finalize_liquidity"} /\ HasReserves(prev, last.pair)) =>
    LET p == last.pair
        n == SharesFor(prev, p, pair_reserve_a[p] - prev.pair_reserve_a[p],
                                pair_reserve_b[p] - prev.pair_reserve_b[p])
    IN  /\ last.ret = n /\ n > 0 /\ n >= last.arg.m
        /\ lp_shares[p][last.caller] = prev.lp_shares[p][last.caller] + n
        /\ total_lp_shares[p] = prev.total_lp_shares[p] + n

\* C30 as stated: in a pool with reserves mint and finalize_liquidity credit
\* min(floor(used_a * T / reserve_a), floor(used_b * T / reserve_b)) shares,
\* T and the reserves taken before the deposit, and are rejected with
\* "Slippage: shares below minimum", storage unchanged, when that number is
\* below min_shares or is zero.
C30_ZeroSharesIsSlippage ==
  /\ SharesOfLastDeposit
  /\ \A p \in PairIds : (HasReserves(St, p) /\ ChangesPool(last.op)) =>
       DepositsAnswer(p, "Slippage: shares below minimum")

\* C30: in a pool with reserves mint and finalize_liquidity credit
\* min(floor(used_a * T / reserve_a), floor(used_b * T / reserve_b)) shares,
\* T and the reserves taken before the deposit; they are rejected with
\* "Slippage: shares below minimum" when that number is below min_shares and
\* with "Shares must be > 0" when it is zero and min_shares is zero too, the
\* storage unchanged in both cases.
C30_SharesOfDeposit ==
  /\ SharesOfLastDeposit
  /\ \A p \in PairIds : (HasReserves(St, p) /\ ChangesPool(last.op)) =>
       DepositsAnswer(p, "Shares must be > 0")

\* a finalize_liquidity added shares to a pool with reserves, and in the pool
\* it left a tiny offer matches the ratio on both sides and earns zero shares
C30_Witness ==
  /\ last.op = "finalize_liquidity" /\ HasReserves(prev, last.pair) /\ last.ret > 0
  /\ \E caller \in Accounts :
       \A o \in { TinyOffer(last.pair) } :
         /\ Matched(St, last.pair, o[1], o[2])[1] > 0
         /\ Matched(St, last.pair, o[1], o[2])[2] > 0
         /\ mint(St, caller, last.pair, 0, MintValue(last.pair, o[1], o[2])).err
              = "Shares must be > 0"
         /\ mint(St, caller, last.pair, 1, MintValue(last.pair, o[1], o[2])).err
              = "Slippage: shares below minimum"


(***************************************************************************)
(* C31: a deposit does not dilute the other providers                      *)
(***************************************************************************)
\* what shares redeem on each side in storage s: <<floor(shares * reserve_a /
\* T), floor(shares * reserve_b / T)>>
Redeemable(s, p, shares) ==
  << Payout(shares, s.pair_reserve_a[p], TotalShares(s, p)),
     Payout(shares, s.pair_reserve_b[p], TotalShares(s, p)) >>

\* the last call was a mint or finalize_liquidity into a pool with reserves
DepositIntoPool ==
  last.op \in {"mint", "finalize_liquidity"} /\ HasReserves(prev, last.pair)

\* C31: after every accepted mint or finalize_liquidity, every account other
\* than the caller that holds shares of the pair redeems on each side, for
\* the shares it holds, at least what it redeemed before the call.
C31_DepositDoesNotDilute ==
  DepositIntoPool =>
    \A other \in Callers \ {last.caller} :
      LET shares == prev.lp_shares[last.pair][other] IN
      shares > 0 =>
        /\ lp_shares[last.pair][other] = shares
        /\ Redeemable(St, last.pair, shares)[1] >= Redeemable(prev, last.pair, shares)[1]
        /\ Redeemable(St, last.pair, shares)[2] >= Redeemable(prev, last.pair, shares)[2]

\* a deposit whose shares were rounded down was made into a pool in which
\* another account holds shares
C31_Witness ==
  /\ DepositIntoPool
  /\ \E other \in Callers \ {last.caller} : prev.lp_shares[last.pair][other] > 0
  /\ ((pair_reserve_a[last.pair] - prev.pair_reserve_a[last.pair])
        * TotalShares(prev, last.pair)) % prev.pair_reserve_a[last.pair] # 0


(***************************************************************************)
(* C32: what finalize_liquidity does with the pending balances             *)
(***************************************************************************)
\* the amounts finalize_liquidity uses of pending (a, b) on storage s: all of
\* both on an empty pool, the matched amounts otherwise
UsedOfPending(s, p, a, b) ==
  IF s.pair_reserve_a[p] = 0 \/ s.pair_reserve_b[p] = 0 THEN <<a, b>>
  ELSE Matched(s, p, a, b)

\* what the last call sent to account u in the given token
SentTo(u, token) ==
  SumOver([i \in 1..Len(last.out) |-> last.out[i].amount],
          { i \in 1..Len(last.out) : last.out[i].to = u /\ last.out[i].token = token })

WithdrawOps == {"withdraw_pending_a", "withdraw_pending_b", "withdraw_pending_all"}

\* C32: an accepted finalize_liquidity lowers the caller's pending_a and
\* pending_b by exactly the used amounts and raises the reserves by the same
\* amounts; it transfers nothing but the caller's settled fees, so the unused
\* remainder stays pending, and a withdraw_pending_all right after it pays
\* exactly that remainder.  Across every call, a pending balance that shrank
\* was used by its owner's finalize_liquidity or paid to its owner by one of
\* the owner's withdraw_pending calls, in full.
C32_FinalizeKeepsRemainderPending ==
  /\ last.op = "finalize_liquidity" =>
       LET p == last.pair
           caller == last.caller
           a == prev.pending_a[p][caller]
           b == prev.pending_b[p][caller]
           used == UsedOfPending(prev, p, a, b)
       IN
       /\ used[1] > 0 /\ used[2] > 0 /\ used[1] <= a /\ used[2] <= b
       /\ pending_a[p][caller] = a - used[1]
       /\ pending_b[p][caller] = b - used[2]
       /\ pair_reserve_a[p] = prev.pair_reserve_a[p] + used[1]
       /\ pair_reserve_b[p] = prev.pair_reserve_b[p] + used[2]
       /\ last.out = SettlementTransfers(prev, p, caller)
       /\ \A other \in Callers \ {caller} :
            /\ pending_a[p][other] = prev.pending_a[p][other]
            /\ pending_b[p][other] = prev.pending_b[p][other]
       /\ (pending_a[p][caller] > 0 \/ pending_b[p][caller] > 0) =>
            \A w \in { withdraw_pending_all(St, caller, p) } :
              /\ w.err = ""
              /\ w.out = PaidOut(St, p, caller, pending_a[p][caller], pending_b[p][caller])
              /\ w.st.pending_a[p][caller] = 0 /\ w.st.pending_b[p][caller] = 0
  /\ \A p \in PairIds : \A u \in Callers :
       /\ pending_a[p][u] < prev.pending_a[p][u] =>
            /\ last.caller = u /\ last.pair = p
            /\ \/ last.op = "finalize_liquidity"
               \/ /\ last.op \in WithdrawOps \ {"withdraw_pending_b"}
                  /\ pending_a[p][u] = 0
                  /\ SentTo(u, prev.pair_token_a[p]) = prev.pending_a[p][u]
       /\ pending_b[p][u] < prev.pending_b[p][u] =>
            /\ last.caller = u /\ last.pair = p
            /\ \/ last.op = "finalize_liquidity"
               \/ /\ last.op \in WithdrawOps \ {"withdraw_pending_a"}
                  /\ pending_b[p][u] = 0
                  /\ SentTo(u, prev.pair_token_b[p]) = prev.pending_b[p][u]

\* a finalize_liquidity matched the caller's pending amounts to the ratio of
\* the pool and left a remainder pending, which it did not send out
C32_Witness ==
  /\ last.op = "finalize_liquidity" /\ HasReserves(prev, last.pair)
  /\ last.out = <<>>
  /\ pending_a[last.pair][last.caller] + pending_b[last.pair][last.caller] > 0


(***************************************************************************)
(* C33: owner_claim_fees and the platform's fee accumulators               *)
(***************************************************************************)
\* the transfers owner_claim_fees makes for accumulated amounts fees_a, fees_b
OwnerFeeTransfers(s, p, fees_a, fees_b) ==
  (IF fees_a > 0
   THEN << [to |-> Owner, amount |-> fees_a,
            token |-> IF s.pair_token_a_is_klv[p] THEN "KLV" ELSE s.pair_token_a[p]] >>
   ELSE <<>>)
  \o
  (IF fees_b > 0
   THEN << [to |-> Owner, amount |-> fees_b,
            token |-> IF s.pair_token_b_is_klv[p] THEN "KLV" ELSE s.pair_token_b[p]] >>
   ELSE <<>>)

\* C33: an accepted owner_claim_fees transfers to the platform owner exactly
\* the two accumulated amounts, zeroes both accumulators and changes nothing
\* else in storage (reserves, shares and fee indices included); with both
\* accumulators at zero it is rejected with "No fees to claim" and nothing
\* changes.  In every other call an accumulator never falls, and it rises
\* only in a swap, by the platform's portion of the fee the swap distributed.
C33_OwnerClaimsExactlyAccumulated ==
  /\ last.op = "owner_claim_fees" =>
       LET p == last.pair
           fees_a == prev.owner_unclaimed_fees_a[p]
           fees_b == prev.owner_unclaimed_fees_b[p]
       IN
       /\ last.caller = Owner
       /\ fees_a > 0 \/ fees_b > 0
       /\ last.out = OwnerFeeTransfers(prev, p, fees_a, fees_b)
       /\ St = [prev EXCEPT !.owner_unclaimed_fees_a[p] = 0,
                            !.owner_unclaimed_fees_b[p] = 0]
       /\ \A again \in { owner_claim_fees(St, Owner, p) } :
            again.err = "No fees to claim" /\ again.st = St /\ again.out = <<>>
  /\ last.op # "owner_claim_fees" =>
       \A p \in PairIds :
         /\ owner_unclaimed_fees_a[p] >= prev.owner_unclaimed_fees_a[p]
         /\ owner_unclaimed_fees_b[p] >= prev.owner_unclaimed_fees_b[p]
         /\ owner_unclaimed_fees_a[p] > prev.owner_unclaimed_fees_a[p] =>
              /\ last.op = "swap_b_to_a" /\ last.pair = p
              /\ owner_unclaimed_fees_a[p] - prev.owner_unclaimed_fees_a[p]
                   = (last.fee * 10) \div 100
         /\ owner_unclaimed_fees_b[p] > prev.owner_unclaimed_fees_b[p] =>
              /\ last.op = "swap_a_to_b" /\ last.pair = p
              /\ owner_unclaimed_fees_b[p] - prev.owner_unclaimed_fees_b[p]
                   = (last.fee * 10) \div 100

\* the platform owner claimed accumulated fees
C33_Witness ==
  /\ last.op = "owner_claim_fees"
  /\ prev.owner_unclaimed_fees_a[last.pair] + prev.owner_unclaimed_fees_b[last.pair] > 0
  /\ \E i \in 1..Len(last.out) : last.out[i].to = Owner /\ last.out[i].amount > 0


(***************************************************************************)
(* Two pairs side by side.  The storage mappers are keyed by pair_id       *)
(* (lib_v5.rs 1538-1584); this specification runs the endpoints on a       *)
(* contract that holds two pairs sharing one asset, to observe what a call *)
(* on one pair does to the other.                                          *)
(***************************************************************************)
\* calls followed in one run of two pairs
MaxPairOps == 3
BothPairs == {1, 2}

\* fn init on a contract whose pair ids range over ids
EmptyStorage(ids) == [
  next_pair_id |-> 1, registered_pair_ids |-> {},
  pair_creator |-> [p \in ids |-> NoAddr],
  pair_token_a |-> [p \in ids |-> ""], pair_token_b |-> [p \in ids |-> ""],
  pair_token_a_is_klv |-> [p \in ids |-> FALSE],
  pair_token_b_is_klv |-> [p \in ids |-> FALSE],
  pair_reserve_a |-> [p \in ids |-> 0], pair_reserve_b |-> [p \in ids |-> 0],
  pair_fee_percent |-> [p \in ids |-> 0], pair_is_active |-> [p \in ids |-> FALSE],
  owner_shares |-> [p \in ids |-> 0], total_lp_shares |-> [p \in ids |-> 0],
  lp_list |-> [p \in ids |-> {}],
  lp_shares |-> [p \in ids |-> [a \in Callers |-> 0]],
  owner_unclaimed_fees_a |-> [p \in ids |-> 0],
  owner_unclaimed_fees_b |-> [p \in ids |-> 0],
  fee_per_share_a |-> [p \in ids |-> <<>>],
  fee_per_share_b |-> [p \in ids |-> <<>>],
  lp_entry_index_a |-> [p \in ids |-> [a \in Callers |-> <<>>]],
  lp_entry_index_b |-> [p \in ids |-> [a \in Callers |-> <<>>]],
  pending_a |-> [p \in ids |-> [a \in Callers |-> 0]],
  pending_b |-> [p \in ids |-> [a \in Callers |-> 0]],
  pair_pending_user_count |-> [p \in ids |-> 0] ]

\* the contract after create_pair(TKA, TKB, 1%) by u1 and
\* create_pair(TKB, TKC, 10%) by u2
TwoPairStorage ==
  create_pair(create_pair(EmptyStorage(BothPairs), "u1", "TKA", "TKB", FALSE, FALSE, 1).st,
              "u2", "TKB", "TKC", FALSE, FALSE, 10).st

\* the call value attaching amount a of token A and b of token B of pair p
ValueOf(s, p, a, b) ==
  [klv |-> 0,
   kda |-> (IF a > 0 THEN << [token |-> s.pair_token_a[p], amount |-> a] >> ELSE <<>>)
           \o (IF b > 0 THEN << [token |-> s.pair_token_b[p], amount |-> b] >> ELSE <<>>)]

\* the endpoint named by a call [op, pair, caller, arg], run on storage s
Run(s, call) ==
  LET p == call.pair
      u == call.caller
      x == call.arg
  IN
  CASE call.op = "mint" -> mint(s, u, p, x.m, ValueOf(s, p, x.a, x.b))
    [] call.op = "deposit_pending_a" ->
         deposit_pending_a(s, u, p, [token |-> s.pair_token_a[p], amount |-> x.a])
    [] call.op = "deposit_pending_b" ->
         deposit_pending_b(s, u, p, [token |-> s.pair_token_b[p], amount |-> x.b])
    [] call.op = "finalize_liquidity" -> finalize_liquidity(s, u, p, x.m)
    [] call.op = "withdraw_pending_a" -> withdraw_pending_a(s, u, p)
    [] call.op = "withdraw_pending_b" -> withdraw_pending_b(s, u, p)
    [] call.op = "withdraw_pending_all" -> withdraw_pending_all(s, u, p)
    [] call.op = "remove_liquidity" -> remove_liquidity(s, u, p, x.a)
    [] call.op = "claim_lp_fees" -> claim_lp_fees(s, u, p)
    [] call.op = "swap_a_to_b" ->
         swap_a_to_b(s, u, p, x.m, [token |-> s.pair_token_a[p], amount |-> x.a])
    [] call.op = "swap_b_to_a" ->
         swap_b_to_a(s, u, p, x.m, [token |-> s.pair_token_b[p], amount |-> x.b])
    [] call.op = "owner_claim_fees" -> owner_claim_fees(s, u, p)
    [] call.op = "set_pair_active" -> set_pair_active(s, u, p, x.m = 1)
    [] call.op = "set_pair_fee" -> set_pair_fee(s, u, p, x.m)
    [] call.op = "update_pair_token_a" -> update_pair_token_a(s, u, p, "TKD", FALSE)
    [] call.op = "update_pair_token_b" -> update_pair_token_b(s, u, p, "TKE", FALSE)
    [] call.op = "delete_pair" -> delete_pair(s, u, p)

ACall(op, p, u, a, b, m) ==
  [op |-> op, pair |-> p, caller |-> u, arg |-> [a |-> a, b |-> b, m |-> m]]

\* the calls on pair p tried from storage s
CallsOn(s, p) ==
  { ACall("mint", p, u, 2000, 4000, 0) : u \in Accounts }
  \cup { ACall("deposit_pending_a", p, "u1", 2000, 0, 0),
         ACall("deposit_pending_b", p, "u1", 0, 1500, 0),
         ACall("finalize_liquidity", p, "u1", 0, 0, 0),
         ACall("withdraw_pending_a", p, "u1", 0, 0, 0),
         ACall("withdraw_pending_b", p, "u1", 0, 0, 0),
         ACall("withdraw_pending_all", p, "u1", 0, 0, 0),
         ACall("swap_a_to_b", p, "u2", 500, 0, 0),
         ACall("swap_b_to_a", p, "u2", 0, 500, 0),
         ACall("owner_claim_fees", p, Owner, 0, 0, 0),
         ACall("set_pair_active", p, Owner, 0, 0, 0),
         ACall("set_pair_active", p, Owner, 0, 0, 1),
         ACall("set_pair_fee", p, Owner, 0, 0, 5),
         ACall("update_pair_token_a", p, Owner, 0, 0, 0),
         ACall("update_pair_token_b", p, Owner, 0, 0, 0),
         ACall("delete_pair", p, "u1", 0, 0, 0),
         ACall("delete_pair", p, "u2", 0, 0, 0) }
  \cup { ACall("remove_liquidity", p, u, s.lp_shares[p][u], 0, 0) : u \in Accounts }
  \cup { ACall("claim_lp_fees", p, u, 0, 0, 0) : u \in Accounts }

PairsInit ==
  /\ StorageIs(TwoPairStorage)
  /\ last = [op |-> "init", pair |-> 0, caller |-> NoAddr, arg |-> NoArg,
             out |-> <<>>, ret |-> 0, raw |-> 0, fee |-> 0, late |-> FALSE]
  /\ prev = TwoPairStorage
  /\ ops = 0
  /\ held_a = [p \in BothPairs |-> 0]
  /\ held_b = [p \in BothPairs |-> 0]

\* one accepted call on one of the two pairs
PairCall ==
  \E p \in BothPairs : \E call \in CallsOn(St, p) :
    /\ ops < MaxPairOps
    /\ Call(call.op, call.pair, call.caller, call.arg, Run(St, call))

PairsNext == PairCall

SpecPairs == PairsInit /\ [][PairsNext]_vars


(***************************************************************************)
(* C34: pairs are independent of one another                               *)
(***************************************************************************)
\* everything the contract stores under pair q
PairView(s, q) ==
  [ registered |-> q \in s.registered_pair_ids,
    creator |-> s.pair_creator[q],
    token_a |-> s.pair_token_a[q], token_b |-> s.pair_token_b[q],
    a_is_klv |-> s.pair_token_a_is_klv[q], b_is_klv |-> s.pair_token_b_is_klv[q],
    reserve_a |-> s.pair_reserve_a[q], reserve_b |-> s.pair_reserve_b[q],
    fee_percent |-> s.pair_fee_percent[q], is_active |-> s.pair_is_active[q],
    owner_shares |-> s.owner_shares[q], total_lp_shares |-> s.total_lp_shares[q],
    lp_list |-> s.lp_list[q], lp_shares |-> s.lp_shares[q],
    unclaimed_a |-> s.owner_unclaimed_fees_a[q],
    unclaimed_b |-> s.owner_unclaimed_fees_b[q],
    fee_per_share_a |-> s.fee_per_share_a[q], fee_per_share_b |-> s.fee_per_share_b[q],
    entry_a |-> s.lp_entry_index_a[q], entry_b |-> s.lp_entry_index_b[q],
    pending_a |-> s.pending_a[q], pending_b |-> s.pending_b[q],
    pending_users |-> s.pair_pending_user_count[q] ]

\* the last call, as a call that can be run again
LastCall == [op |-> last.op, pair |-> last.pair, caller |-> last.caller, arg |-> last.arg]

\* C34: an accepted call on pair p leaves everything stored under every other
\* pair q as it was, and it commutes with every call on q: the call on q has
\* the same outcome (error, transfers, return value) before and after the call
\* on p, and running the two in the other order gives the same transfers and
\* the same final storage.
C34_PairsAreIndependent ==
  last.pair \in BothPairs =>
    \A q \in BothPairs \ {last.pair} :
      /\ PairView(St, q) = PairView(prev, q)
      /\ \A y \in CallsOn(prev, q) :
           LET first == Run(prev, y)
               after == Run(St, y)
           IN
           /\ after.err = first.err
           /\ after.out = first.out
           /\ after.ret = first.ret
           /\ first.err = "" =>
                \A other \in { Run(first.st, LastCall) } :
                  /\ other.err = ""
                  /\ other.out = last.out
                  /\ other.st = after.st

\* a swap on one pair while the other pair holds liquidity that its provider
\* can withdraw
C34_Witness ==
  /\ last.op = "swap_a_to_b" /\ last.pair \in BothPairs
  /\ \E q \in BothPairs \ {last.pair} :
       /\ HasReserves(St, q)
       /\ \E y \in CallsOn(prev, q) :
            y.op = "remove_liquidity" /\ Run(prev, y).err = "" /\ Run(prev, y).out # <<>>


(***************************************************************************)
(* C35: solvency                                                           *)
(***************************************************************************)
\* what the contract owes on each side of pair p in storage s: the reserve,
\* every account's pending deposit, the platform's unclaimed fees and every
\* account's claimable LP fees
OwedA(s, p) ==
  s.pair_reserve_a[p] + SumOver(s.pending_a[p], Callers) + s.owner_unclaimed_fees_a[p]
  + SumOver([u \in Callers |-> calculate_lp_pending_fees(s, p, u)[1]], Callers)
OwedB(s, p) ==
  s.pair_reserve_b[p] + SumOver(s.pending_b[p], Callers) + s.owner_unclaimed_fees_b[p]
  + SumOver([u \in Callers |-> calculate_lp_pending_fees(s, p, u)[2]], Callers)

MintedShares == lp_shares[last.pair][last.caller] - prev.lp_shares[last.pair][last.caller]

\* the same account's remove_liquidity of exactly the minted shares, run on
\* the storage the deposit left
BurnBack == remove_liquidity(St, last.caller, last.pair, MintedShares)

\* C38: after an accepted mint or finalize_liquidity that minted n shares, the
\* same account's remove_liquidity(n) is accepted and transfers to it, on each
\* side, no more than the deposit added to that side's reserve, and nothing
\* else.
C38_RoundTripGainsNothing ==
  last.op \in {"mint", "finalize_liquidity"} =>
    LET p == last.pair
        added_a == pair_reserve_a[p] - prev.pair_reserve_a[p]
        added_b == pair_reserve_b[p] - prev.pair_reserve_b[p]
    IN
    /\ MintedShares > 0 /\ MintedShares = last.ret
    /\ added_a > 0 /\ added_b > 0
    /\ \A r \in { BurnBack } :
         /\ r.err = ""
         /\ AmountOf(r.out, AssetA(St, p)) <= added_a
         /\ AmountOf(r.out, AssetB(St, p)) <= added_b
         /\ \A i \in 1..Len(r.out) :
              r.out[i].to = last.caller /\ r.out[i].token \in {AssetA(St, p), AssetB(St, p)}

\* a deposit into a pool that already holds liquidity, where burning the new
\* shares at once returns less on side A than the deposit added
C38_Witness ==
  /\ last.op \in {"mint", "finalize_liquidity"}
  /\ HasReserves(prev, last.pair)
  /\ AmountOf(BurnBack.out, AssetA(St, last.pair))
       < pair_reserve_a[last.pair] - prev.pair_reserve_a[last.pair]


(***************************************************************************)
(* C39: what mint does with the attached amounts                           *)
(***************************************************************************)
\* the total amount of one asset among the transfer entries of a call value
Attached(value, token) == AmountOf(value.kda, token)

\* call values of a mint on pair p: each asset attached once, asset A attached
\* in two entries, and an entry of an asset that is not of the pair added
OnceEach(p) ==
  [klv |-> 0, kda |-> << [token |-> pair_token_a[p], amount |-> 2000],
                         [token |-> pair_token_b[p], amount |-> 4000] >>]
TwiceA(p) ==
  [klv |-> 0, kda |-> << [token |-> pair_token_a[p], amount |-> 1500],
                         [token |-> pair_token_a[p], amount |-> 500],
                         [token |-> pair_token_b[p], amount |-> 4000] >>]
WithForeign(p) ==
  [klv |-> 0, kda |-> << [token |-> pair_token_a[p], amount |-> 2000],
                         [token |-> "TKX", amount |-> 700],
                         [token |-> pair_token_b[p], amount |-> 4000] >>]

\* an accepted mint of u on pair p with this call value adds to each reserve
\* and refunds, together, exactly what was attached of that side's asset
\* (the caller's settled fees are no refund)
MintAccountsFor(p, u, value) ==
  \A r \in { mint(St, u, p, 0, value) } :
    r.err = "" =>
      LET fees == SettlementTransfers(St, p, u) IN
      /\ (r.st.pair_reserve_a[p] - pair_reserve_a[p])
           + (AmountOf(r.out, AssetA(St, p)) - AmountOf(fees, AssetA(St, p)))
         = Attached(value, pair_token_a[p])
      /\ (r.st.pair_reserve_b[p] - pair_reserve_b[p])
           + (AmountOf(r.out, AssetB(St, p)) - AmountOf(fees, AssetB(St, p)))
         = Attached(value, pair_token_b[p])

\* an entry of an asset that is not of the pair changes nothing in the call
ForeignIgnored(p, u) ==
  \A r \in { mint(St, u, p, 0, WithForeign(p)) } :
    \A q \in { mint(St, u, p, 0, OnceEach(p)) } :
      r.err = q.err /\ r.st = q.st /\ r.out = q.out /\ r.ret = q.ret

\* the pairs a mint is tried on
OpenPairs == { p \in PairIds : p \in registered_pair_ids /\ pair_is_active[p] }

\* with each asset attached in one entry, reserve increase plus refund is the
\* attached amount, and an entry of another asset has no effect
SingleEntriesAccountedFor ==
  \A p \in OpenPairs : \A u \in Accounts :
    /\ MintAccountsFor(p, u, OnceEach(p))
    /\ ForeignIgnored(p, u)

\* C39: in mint, for each of the two assets, the amount added to the reserve
\* plus the amount refunded equals the total amount of that asset attached,
\* also when the asset is attached in more than one transfer entry; an entry
\* of an asset that is not of the pair has no effect on shares, reserves or
\* refunds.
C39_MintAccountsForAllAttached ==
  \A p \in OpenPairs : \A u \in Accounts :
    /\ MintAccountsFor(p, u, OnceEach(p))
    /\ MintAccountsFor(p, u, TwiceA(p))
    /\ ForeignIgnored(p, u)


(***************************************************************************)
(* C40: the asset of a side that holds pending deposits                    *)
(***************************************************************************)
\* some account has a pending balance on side A (side B) of pair p in s
HasPendingA(s, p) == \E u \in Callers : s.pending_a[p][u] > 0
HasPendingB(s, p) == \E u \in Callers : s.pending_b[p][u] > 0

\* C40: a pending deposit is paid back in the asset in which it was made:
\* while any account has a non-zero pending balance on a side of a pair, no
\* call (update_pair_token_a / update_pair_token_b in particular) changes the
\* asset configured for that side.
C40_PendingKeepsItsAsset ==
  \A p \in BothPairs :
    /\ HasPendingA(prev, p) => AssetA(St, p) = AssetA(prev, p)
    /\ HasPendingB(prev, p) => AssetB(St, p) = AssetB(prev, p)

(***************************************************************************)
(* C37: an inactive pair lets everybody out                                *)
(***************************************************************************)
\* the call fared on the deactivated storage as call r did on the active one:
\* same outcome, same transfers, same storage but for the flag
SameButInactive(c, r, p) ==
  \A x \in { c } : \A y \in { r } :
    /\ x.err = y.err
    /\ x.out = y.out
    /\ x.st = [y.st EXCEPT !.pair_is_active[p] = FALSE]

\* the calls by which account u takes its funds out of pair p of storage s
ExitCalls(s, u, p) ==
  << remove_liquidity(s, u, p, s.lp_shares[p][u]),
     claim_lp_fees(s, u, p),
     withdraw_pending_a(s, u, p),
     withdraw_pending_b(s, u, p),
     withdraw_pending_all(s, u, p) >>

\* C37: on a pair the owner has deactivated (by set_pair_active now, or in an
\* earlier call of the run), remove_liquidity, claim_lp_fees and
\* withdraw_pending_a / _b / _all fare exactly as on the active pair; a
\* provider's burn of all its shares is accepted and leaves it no shares,
\* claim_lp_fees is accepted for every provider, and each withdrawal is
\* accepted for every account with a pending balance on that side, pays the
\* balance and leaves none.
C37_InactivePairReleasesFunds ==
  \A p \in BothPairs : p \in registered_pair_ids =>
    \A u \in Accounts :
      LET d == Deactivated(p)
          off == ExitCalls(d, u, p)
          on == ExitCalls([St EXCEPT !.pair_is_active[p] = TRUE], u, p)
      IN
        /\ ~d.pair_is_active[p]
        /\ \A i \in 1..5 : SameButInactive(off[i], on[i], p)
        /\ lp_shares[p][u] > 0 =>
             /\ off[1].err = "" /\ off[1].st.lp_shares[p][u] = 0
             /\ off[2].err = ""
        /\ pending_a[p][u] > 0 =>
             /\ off[3].err = "" /\ off[3].st.pending_a[p][u] = 0
             /\ off[3].out = PaidOut(d, p, u, pending_a[p][u], 0)
        /\ pending_b[p][u] > 0 =>
             /\ off[4].err = "" /\ off[4].st.pending_b[p][u] = 0
             /\ off[4].out = PaidOut(d, p, u, 0, pending_b[p][u])
        /\ (pending_a[p][u] > 0 \/ pending_b[p][u] > 0) =>
             /\ off[5].err = ""
             /\ off[5].st.pending_a[p][u] = 0 /\ off[5].st.pending_b[p][u] = 0
             /\ off[5].out = PaidOut(d, p, u, pending_a[p][u], pending_b[p][u])

\* the owner has just deactivated a pair in which an account has shares and
\* fees to claim, and the account can still burn all its shares
C37_Witness ==
  /\ last.op = "set_pair_active"
  /\ \E u \in Accounts :
       /\ ~pair_is_active[last.pair]
       /\ lp_shares[last.pair][u] > 0
       /\ calculate_lp_pending_fees(St, last.pair, u) # <<0, 0>>
       /\ remove_liquidity(St, u, last.pair, lp_shares[last.pair][u]).out # <<>>

====
